---- MODULE Spec2Model ----
(***************************************************************************)
(* Model of the IPL JSON -> MySQL loader (src/loader.py).                  *)
(*                                                                         *)
(* The state is the database (the connection's working view `db` and the   *)
(* durable image `committed`), the locals of main() and of                 *)
(* process_json_file(), and a few history variables used to state          *)
(* properties.  One action per step of the per-file lifecycle:             *)
(*   Glob/NoFiles, ReadFile, PersistHeader, PersistRoster,                 *)
(*   PersistOfficials, WalkInnings, WalkOver, ProcessDelivery,             *)
(*   PersistAggregates, Summary, Rerun.                                    *)
(* Every cursor.execute() may raise a storage error; the statements that   *)
(* raise in one step are the members of the fault set F chosen by the step.*)
(***************************************************************************)
EXTENDS Integers, Sequences, FiniteSets, TLC

\* ------------------------------------------------------------------ bounds
MaxRuns == 2        \* invocations of main() over the same folder
MaxFaults == 1      \* failing storage operations in one behaviour
MaxCalls == 2       \* get_or_create_player calls of one concurrent loader

\* --------------------------------------------------------- program constants
NameLimit == 500    \* len(clean_name) > 500 -> clean_name[:500]

\* ------------------------------------------------------------ value encoding
Null == "NULL"              \* SQL NULL / Python None in a text column
NoId == 0                   \* SQL NULL / Python None in an id column
PyNone == <<"<None>">>      \* a JSON key that is absent (dict.get -> None)
PyInt == <<"<int>">>        \* a JSON number where a string is expected
NoTotal == -1               \* the runs record has no "total" key
NoMargin == <<>>            \* margin = None

\* A player name is a sequence of one-character strings.
A == <<"a">>
ASp == <<" ", "a">>
B == <<"b">>
C == <<"c">>
Blank == <<" ">>

IsSpace(ch) == ch = " "

RECURSIVE LStrip(_)
LStrip(s) == IF s # <<>> /\ IsSpace(Head(s)) THEN LStrip(Tail(s)) ELSE s

RECURSIVE RStrip(_)
RStrip(s) ==
  IF s # <<>> /\ IsSpace(s[Len(s)]) THEN RStrip(SubSeq(s, 1, Len(s) - 1)) ELSE s

\* str.strip()
Strip(s) == RStrip(LStrip(s))

\* `not player_name or not player_name.strip()`
NameIsEmpty(name) == name = PyNone \/ name = <<>> \/ Strip(name) = <<>>

\* clean_name = player_name.strip()[:500]
CleanName(name) ==
  LET s == Strip(name)
  IN  IF Len(s) > NameLimit THEN SubSeq(s, 1, NameLimit) ELSE s

\* registry.get(name)
RegistryGet(registry, name) ==
  IF name \in DOMAIN registry THEN registry[name] ELSE Null

Max(a, b) == IF a >= b THEN a ELSE b

\* ------------------------------------------------------------- match records
\* One delivery record of the ball-by-ball data.  dict = FALSE is a delivery
\* that is not a JSON object (delivery.get raises AttributeError).
Dlv(batter, non_striker, bowler, rb, re, total, wickets) ==
  [dict |-> TRUE, batter |-> batter, non_striker |-> non_striker,
   bowler |-> bowler, has_runs |-> TRUE,
   runs |-> [batter |-> rb, extras |-> re, total |-> total],
   wickets |-> wickets]

\* a delivery object with no batter, non_striker, bowler, runs or wickets key
DlvMissing ==
  [dict |-> TRUE, batter |-> PyNone, non_striker |-> PyNone,
   bowler |-> PyNone, has_runs |-> FALSE,
   runs |-> [batter |-> 0, extras |-> 0, total |-> NoTotal],
   wickets |-> <<>>]

\* a delivery that is not an object
DlvNotDict == [DlvMissing EXCEPT !.dict = FALSE]

Over(n, ds) == [has_over |-> TRUE, over |-> n, deliveries |-> ds]
OverNoNumber(ds) == [has_over |-> FALSE, over |-> 0, deliveries |-> ds]

NoOfficials ==
  [umpires |-> <<>>, tv_umpires |-> <<>>, reserve_umpires |-> <<>>,
   match_referees |-> <<>>]

InfoXY ==
  [teams |-> <<"X", "Y">>, venue |-> "v1",
   toss_winner |-> "X", toss_decision |-> "bat",
   winner |-> "X", has_by |-> TRUE, by |-> [runs |-> 7],
   balls_per_over |-> 6,
   players |-> <<>>, registry |-> <<>>, officials |-> NoOfficials]

\* a complete match: roster, registry, officials, two innings, a wicket
FileGood ==
  [readable |-> TRUE,
   info |-> [InfoXY EXCEPT
      !.players = << [team |-> "X", names |-> <<A>>],
                     [team |-> "Y", names |-> <<B>>] >>,
      !.registry = (A :> "ra"),
      !.officials = [NoOfficials EXCEPT !.umpires = <<"u1">>,
                                        !.match_referees = <<"r1">>]],
   innings |-> <<
     [team |-> "X", overs |-> << Over(0, << Dlv(A, C, B, 1, 1, 2, <<>>) >>) >>],
     [team |-> "Y", overs |-> << Over(0, <<
        Dlv(B, Blank, ASp, 0, 0, NoTotal,
            << [kind |-> "caught", player_out |-> B, fielders |-> <<C>>] >>)
        >>) >>] >>]

\* no venue, no margin, another registry identifier for player A; the
\* delivery of the first over lacks every nested field, the one of the second
\* over names its batter and bowler
FileSparse ==
  [readable |-> TRUE,
   info |-> [InfoXY EXCEPT !.venue = Null, !.has_by = FALSE, !.by = <<>>,
                           !.registry = (A :> "rz")],
   innings |-> <<
     [team |-> "X", overs |-> <<
        Over(0, << DlvMissing >>),
        Over(1, << Dlv(A, PyNone, B, 4, 0, 4, <<>>) >>) >>] >>]

\* a roster entry is a number; one delivery is not an object, the next one
\* is an object with two dismissals, the first of which names no player
FileBroken ==
  [readable |-> TRUE,
   info |-> [InfoXY EXCEPT !.winner = Null, !.by = [wickets |-> 4],
      !.players = << [team |-> "Y", names |-> <<B, PyInt>>] >>],
   innings |-> <<
     [team |-> "Y", overs |-> << Over(0, <<
        DlvNotDict,
        Dlv(B, PyNone, A, 1, 0, 1,
            << [kind |-> "run out", player_out |-> PyNone, fielders |-> <<>>],
               [kind |-> "run out", player_out |-> B, fielders |-> <<>>] >>)
        >>) >>] >>]

\* the second over block has no over number
FileBadOver ==
  [readable |-> TRUE,
   info |-> [InfoXY EXCEPT !.officials =
                [NoOfficials EXCEPT !.tv_umpires = <<"u2">>]],
   innings |-> <<
     [team |-> "X", overs |-> <<
        Over(0, << Dlv(A, PyNone, PyNone, 6, 0, 6, <<>>) >>),
        OverNoNumber(<< Dlv(A, PyNone, PyNone, 1, 0, 1, <<>>) >>) >>] >>]

\* open() or json.load() raises
FileUnreadable ==
  [readable |-> FALSE, info |-> InfoXY, innings |-> <<>>]

Catalog ==
  [good |-> FileGood, sparse |-> FileSparse, broken |-> FileBroken,
   badover |-> FileBadOver, unreadable |-> FileUnreadable]

\* the match files found in JSON_FOLDER, named by match id
MatchIds == {"m1", "m2"}

\* what a file of the folder can hold when it is read
FolderContents ==
  [m1 |-> {"good", "sparse"}, m2 |-> {"broken", "badover", "unreadable"}]

\* ------------------------------------------------------------------- state
VARIABLES
  autocommit,       \* DB_CONFIG["autocommit"], read from the environment
  db,               \* the tables as the loader's connection sees them
  committed,        \* the tables as committed (what a rollback restores)
  run,              \* number of the current invocation of main()
  folder,           \* JSON_FOLDER: the listing glob returns, what each file holds
  json_files,       \* main: glob result, a sequence of match ids
  idx,              \* main: index i of the file being processed
  successful,       \* main: counter
  failed,           \* main: counter
  pc,               \* position in main / process_json_file
  content,          \* process_json_file: the parsed match_data (catalog key)
  innings_data,     \* process_json_file: innings_idx -> running aggregates
  total_deliveries, \* process_json_file: counter
  delivery_errors,  \* process_json_file: counter
  pos,              \* innings walk: [inn, ov, ball, seq, over_num]
  faults,           \* storage errors raised so far
  flags,            \* history: what went wrong in the current file
  outcomes,         \* history: one record per file finished in this run
  hist,             \* history: per match id, the snapshots after each ingestion
  reports,          \* history: what each run of main() printed, its exit status
  race,             \* two loaders resolving players at once (SpecRace only)
  server,           \* src/main.py: the database object and the tool call (SpecSql only)
  calc              \* the overs computation on its own (SpecOvers only)

vars ==
  <<autocommit, db, committed, run, folder, json_files, idx, successful, failed, pc,
    content, innings_data, total_deliveries, delivery_errors, pos, faults,
    flags, outcomes, hist, reports, race, server, calc>>

\* --------------------------------------------------------------- the tables
EmptyDb ==
  [matches |-> {}, players |-> {}, match_players |-> {}, innings |-> {},
   deliveries |-> <<>>, match_officials |-> <<>>]

\* a connection: working view and committed image
Conn(d, c) == [db |-> d, committed |-> c]

\* cursor.execute of a data-changing statement that succeeds
Exec(s, newdb) ==
  IF autocommit THEN Conn(newdb, newdb) ELSE Conn(newdb, s.committed)

\* conn.commit()
Commit(s) == Conn(s.db, s.db)

\* variant: a rollback undoes the committed work of the connection too
Rollback_ToEmpty(s) == Conn(EmptyDb, EmptyDb)

\* conn.rollback()
Rollback(s) == Conn(s.committed, s.committed)

\* players.player_id AUTO_INCREMENT
NextPlayerId(players) == Cardinality(players) + 1

\* variant: the players table has no unique key on player_name
InsertPlayer_NoUniqueName(players, clean, registry_id, new_id) ==
  players \cup { [player_id |-> new_id, player_name |-> clean,
                  registry_id |-> registry_id] }

\* INSERT INTO players ... ON DUPLICATE KEY UPDATE
\*   player_id=LAST_INSERT_ID(player_id),
\*   registry_id=COALESCE(VALUES(registry_id), registry_id)
\* new_id is the next AUTO_INCREMENT value.
InsertPlayer(players, clean, registry_id, new_id) ==
  IF \E p \in players : p.player_name = clean
  THEN { IF p.player_name = clean
         THEN [p EXCEPT !.registry_id =
                  IF registry_id # Null THEN registry_id ELSE @]
         ELSE p : p \in players }
  ELSE players \cup
         { [player_id |-> new_id, player_name |-> clean,
            registry_id |-> registry_id] }

\* variant: the lookup has no WHERE clause and returns the first row
SelectPlayerId_AnyRow(players, clean) ==
  IF players # {}
  THEN (CHOOSE p \in players :
          \A q \in players : p.player_id <= q.player_id).player_id
  ELSE NoId

\* SELECT player_id FROM players WHERE player_name=%s ; fetchone()
SelectPlayerId(players, clean) ==
  IF \E p \in players : p.player_name = clean
  THEN (CHOOSE p \in players : p.player_name = clean).player_id
  ELSE NoId

\* variant: no guard for a missing name, None.strip() raises
GetOrCreatePlayer_NoGuard(s, name, registry_id, F, site) ==
  IF name = PyInt \/ name = PyNone
  THEN [s |-> s, id |-> NoId, raised |-> TRUE]
  ELSE IF NameIsEmpty(name)
  THEN [s |-> s, id |-> NoId, raised |-> FALSE]
  ELSE LET clean == CleanName(name) IN
       IF <<site, "ins">> \notin F /\ <<site, "both">> \notin F
       THEN LET players2 == InsertPlayer(s.db.players, clean, registry_id,
                                            NextPlayerId(s.db.players))
                s2 == Commit(Exec(s, [s.db EXCEPT !.players = players2]))
            IN  [s |-> s2, id |-> SelectPlayerId(players2, clean),
                 raised |-> FALSE]
       ELSE IF <<site, "both">> \notin F
       THEN [s |-> s, id |-> SelectPlayerId(s.db.players, clean),
             raised |-> FALSE]
       ELSE [s |-> s, id |-> NoId, raised |-> FALSE]

\* get_or_create_player(cur, conn, player_name, registry_id).
\* F is the set of statements that raise in this step; site names the call.
GetOrCreatePlayer(s, name, registry_id, F, site) ==
  IF name = PyInt
  THEN [s |-> s, id |-> NoId, raised |-> TRUE]
  ELSE IF NameIsEmpty(name)
  THEN [s |-> s, id |-> NoId, raised |-> FALSE]
  ELSE LET clean == CleanName(name) IN
       IF <<site, "ins">> \notin F /\ <<site, "both">> \notin F
       THEN LET players2 == InsertPlayer(s.db.players, clean, registry_id,
                                            NextPlayerId(s.db.players))
                s2 == Commit(Exec(s, [s.db EXCEPT !.players = players2]))
            IN  [s |-> s2, id |-> SelectPlayerId(players2, clean),
                 raised |-> FALSE]
       ELSE IF <<site, "both">> \notin F
       THEN [s |-> s, id |-> SelectPlayerId(s.db.players, clean),
             raised |-> FALSE]
       ELSE [s |-> s, id |-> NoId, raised |-> FALSE]

\* variant: a column keeps its stored value when the new value is NULL
\* (col=COALESCE(VALUES(col), col))
UpdateMatch_KeepOnNull(old, new) ==
  [match_id |-> old.match_id,
   team1 |-> IF new.team1 = Null THEN old.team1 ELSE new.team1,
   team2 |-> IF new.team2 = Null THEN old.team2 ELSE new.team2,
   venue |-> IF new.venue = Null THEN old.venue ELSE new.venue,
   toss_winner |-> IF new.toss_winner = Null THEN old.toss_winner
                   ELSE new.toss_winner,
   toss_decision |-> IF new.toss_decision = Null THEN old.toss_decision
                     ELSE new.toss_decision,
   winner |-> IF new.winner = Null THEN old.winner ELSE new.winner,
   margin |-> IF new.margin = NoMargin THEN old.margin ELSE new.margin,
   balls_per_over |-> new.balls_per_over]

\* ON DUPLICATE KEY UPDATE team1=VALUES(team1), team2=VALUES(team2),
\* venue=VALUES(venue), ...: every column of the statement but match_id takes
\* the value of the new parameter tuple, NULL included
UpdateMatch(old, new) ==
  [match_id |-> old.match_id, team1 |-> new.team1, team2 |-> new.team2,
   venue |-> new.venue, toss_winner |-> new.toss_winner,
   toss_decision |-> new.toss_decision, winner |-> new.winner,
   margin |-> new.margin, balls_per_over |-> new.balls_per_over]

\* INSERT INTO matches ... ON DUPLICATE KEY UPDATE ...: match_id is the
\* primary key, so a row with the same match_id is updated in place
UpsertMatch(matches, row) ==
  IF \E r \in matches : r.match_id = row.match_id
  THEN {IF r.match_id = row.match_id THEN UpdateMatch(r, row) ELSE r :
          r \in matches}
  ELSE matches \cup {row}

\* INSERT INTO match_players (match_id, player_id, team, registry_name)
\*   ON DUPLICATE KEY UPDATE team=VALUES(team), registry_name=VALUES(...)
UpsertLink(links, m, pid, team, registry_name) ==
  {r \in links : ~(r.match_id = m /\ r.player_id = pid)} \cup
  { [match_id |-> m, player_id |-> pid, team |-> team,
     registry_name |-> registry_name] }

\* variant: REPLACE INTO match_players (match_id, player_id, team)
InsertIgnoreLink_Replace(links, m, pid, team) ==
  {r \in links : ~(r.match_id = m /\ r.player_id = pid)} \cup
  { [match_id |-> m, player_id |-> pid, team |-> team,
     registry_name |-> Null] }

\* INSERT IGNORE INTO match_players (match_id, player_id, team)
InsertIgnoreLink(links, m, pid, team) ==
  IF \E r \in links : r.match_id = m /\ r.player_id = pid
  THEN links
  ELSE links \cup { [match_id |-> m, player_id |-> pid, team |-> team,
                     registry_name |-> Null] }

\* variant: ON DUPLICATE KEY UPDATE total_runs = total_runs + VALUES(...)
UpsertInnings_Accumulate(innings, row) ==
  IF \E r \in innings : r.match_id = row.match_id /\
                         r.innings_number = row.innings_number
  THEN { IF r.match_id = row.match_id /\
            r.innings_number = row.innings_number
         THEN [row EXCEPT !.total_runs = r.total_runs + row.total_runs,
                          !.total_balls = r.total_balls + row.total_balls]
         ELSE r : r \in innings }
  ELSE innings \cup {row}

\* INSERT INTO innings ... ON DUPLICATE KEY UPDATE ...
UpsertInnings(innings, row) ==
  {r \in innings : ~(r.match_id = row.match_id /\
                     r.innings_number = row.innings_number)} \cup {row}

\* ---------------------------------------------------------- storage errors
\* the sets of at most n statements of `atoms` that raise in one step
RECURSIVE FaultSets(_, _)
FaultSets(atoms, n) ==
  IF n = 0 THEN {{}}
  ELSE LET P == FaultSets(atoms, n - 1)
       IN  P \cup {S \cup {a} : S \in P, a \in atoms}

\* A get_or_create_player call fails in one of two ways: its INSERT raises
\* and the fallback SELECT answers ("ins"), or both raise ("both").
WellFormed(F) ==
  \A a \in F : a[2] = "both" => <<a[1], "ins">> \notin F

Choices(atoms) ==
  {F \in FaultSets(atoms, MaxFaults - faults) : WellFormed(F)}

\* the statements a get_or_create_player call on `name` can execute
CallAtoms(site, name) ==
  IF name = PyInt \/ NameIsEmpty(name) THEN {}
  ELSE {<<site, "ins">>, <<site, "both">>}

\* ------------------------------------------------------- header extraction
\* variant: the wickets key is looked up before the runs key
Margin_WicketsFirst(info) ==
  IF info.has_by
  THEN IF "wickets" \in DOMAIN info.by THEN <<info.by.wickets, "wickets">>
       ELSE IF "runs" \in DOMAIN info.by THEN <<info.by.runs, "runs">>
       ELSE NoMargin
  ELSE NoMargin

\* lines 400-406
Margin(info) ==
  IF info.has_by
  THEN IF "runs" \in DOMAIN info.by THEN <<info.by.runs, "runs">>
       ELSE IF "wickets" \in DOMAIN info.by THEN <<info.by.wickets, "wickets">>
       ELSE NoMargin
  ELSE NoMargin

\* lines 384-386
Team1(info) == IF Len(info.teams) > 0 THEN info.teams[1] ELSE Null
Team2(info) == IF Len(info.teams) > 1 THEN info.teams[2] ELSE Null

\* the parameter tuple of the INSERT INTO matches statement
MatchRow(m, info) ==
  [match_id |-> m, team1 |-> Team1(info), team2 |-> Team2(info),
   venue |-> info.venue, toss_winner |-> info.toss_winner,
   toss_decision |-> info.toss_decision, winner |-> info.winner,
   margin |-> Margin(info), balls_per_over |-> info.balls_per_over]

\* ------------------------------------------------------------ history state
NoFlags ==
  [nfaults |-> 0, unreadable |-> FALSE, hdr_fail |-> FALSE,
   roster_fail |-> FALSE, off_fail |-> FALSE, agg_fail |-> FALSE,
   raised |-> FALSE]

\* the rows of match m, taken when an ingestion of m ends
Snapshot(d, m, c, fl) ==
  [content |-> c, clean |-> fl.nfaults = 0,
   header |-> ~fl.unreadable /\ ~fl.hdr_fail,
   matches |-> {r \in d.matches : r.match_id = m},
   innings |-> {r \in d.innings : r.match_id = m},
   match_players |-> {r \in d.match_players : r.match_id = m},
   match_officials |-> SelectSeq(d.match_officials, LAMBDA r : r.match_id = m),
   ndeliveries |-> Len(SelectSeq(d.deliveries, LAMBDA r : r.match_id = m))]

\* --------------------------------------------------------------------- main
NoRace == [on |-> FALSE]
NoServer == [on |-> FALSE]
NoCalc == [on |-> FALSE]

\* glob.glob returns the files in the order of the directory listing: any
\* order, or nothing when the folder is empty
Batches == {<<>>, <<"m1", "m2">>, <<"m2", "m1">>}

\* the folder as main() finds it
Folders ==
  {f \in [listing : Batches, holds : [MatchIds -> DOMAIN Catalog]] :
     \A m \in MatchIds : f.holds[m] \in FolderContents[m]}

\* the file that is written again between two runs of the loader
Rewritten == "m1"

Init ==
  /\ autocommit \in BOOLEAN
  /\ db = EmptyDb
  /\ committed = EmptyDb
  /\ run = 1
  /\ json_files = <<>>
  /\ idx = 0
  /\ successful = 0
  /\ failed = 0
  /\ pc = "glob"
  /\ content = "unreadable"
  /\ innings_data = <<>>
  /\ total_deliveries = 0
  /\ delivery_errors = 0
  /\ pos = [kind |-> "I", inn |-> 1, ov |-> 0, ball |-> 0, seq |-> 1,
            over_num |-> 0]
  /\ faults = 0
  /\ flags = NoFlags
  /\ outcomes = <<>>
  /\ hist = [m \in MatchIds |-> <<>>]
  /\ folder \in Folders
  /\ reports = <<>>
  /\ race = NoRace
  /\ server = NoServer
  /\ calc = NoCalc

\* lines 699-703: SELECT COUNT(*) FROM <table>, on a connection of its own
TableCounts(d) ==
  [matches |-> Cardinality(d.matches), players |-> Cardinality(d.players),
   match_players |-> Cardinality(d.match_players),
   innings |-> Cardinality(d.innings), deliveries |-> Len(d.deliveries),
   match_officials |-> Len(d.match_officials)]

\* lines 808-815: main() returns None on every path (an early return, the
\* end of the try block, an exception caught by one of its handlers), and
\* the script ends after the call: the exit status of the process is 0
ExitStatus(nfiles, nfailed) == 0

\* lines 649-656: no file matches the pattern, main returns
NoFiles ==
  /\ pc = "glob"
  /\ folder.listing = <<>>
  /\ pc' = "done"
  /\ reports' = Append(reports,
        [files |-> 0, printed |-> FALSE, successful |-> 0, failed |-> 0,
         tables |-> TableCounts(committed), status |-> ExitStatus(0, 0)])
  /\ UNCHANGED <<race, server, calc, folder, autocommit, db, committed, run,
                 json_files, idx, successful, failed, outcomes, content,
                 innings_data, total_deliveries, delivery_errors, pos, faults,
                 flags, hist>>

\* lines 649-665: the files are enumerated and the counters start at zero
Glob ==
  /\ pc = "glob"
  /\ folder.listing # <<>>
  /\ json_files' = folder.listing
  /\ idx' = 1
  /\ successful' = 0
  /\ failed' = 0
  /\ pc' = "read"
  /\ outcomes' = <<>>
  /\ UNCHANGED <<race, server, calc, reports, folder, autocommit, db, committed, run, content, innings_data,
                 total_deliveries, delivery_errors, pos, faults, flags, hist>>

\* variant: a failed file ends the loop over json_files
Finish_StopOnFailure(s, c, ok, fl, nd, ne) ==
  LET m == json_files[idx] IN
  /\ db' = s.db
  /\ committed' = s.committed
  /\ successful' = IF ok THEN successful + 1 ELSE successful
  /\ failed' = IF ok THEN failed ELSE failed + 1
  /\ outcomes' = Append(outcomes,
        [match_id |-> m, content |-> c, ok |-> ok, flags |-> fl,
         deliveries |-> nd, errors |-> ne])
  /\ hist' = [hist EXCEPT ![m] = Append(@, Snapshot(s.db, m, c, fl))]
  /\ flags' = fl
  /\ IF idx < Len(json_files) /\ ok
     THEN idx' = idx + 1 /\ pc' = "read"
     ELSE idx' = idx /\ pc' = "summary"

\* lines 667-682: process_json_file returned ok or False, or raised (then
\* main rolls back); the counters move and the loop goes to the next file
Finish(s, c, ok, fl, nd, ne) ==
  LET m == json_files[idx] IN
  /\ db' = s.db
  /\ committed' = s.committed
  /\ successful' = IF ok THEN successful + 1 ELSE successful
  /\ failed' = IF ok THEN failed ELSE failed + 1
  /\ outcomes' = Append(outcomes,
        [match_id |-> m, content |-> c, ok |-> ok, flags |-> fl,
         deliveries |-> nd, errors |-> ne])
  /\ hist' = [hist EXCEPT ![m] = Append(@, Snapshot(s.db, m, c, fl))]
  /\ flags' = fl
  /\ IF idx < Len(json_files)
     THEN idx' = idx + 1 /\ pc' = "read"
     ELSE idx' = idx /\ pc' = "summary"

\* lines 359-369: open and parse the file
ReadFile ==
  /\ pc = "read"
  /\ LET c == folder.holds[json_files[idx]] IN
       /\ content' = c
       /\ innings_data' = <<>>
       /\ total_deliveries' = 0
       /\ delivery_errors' = 0
       /\ IF Catalog[c].readable
          THEN /\ pc' = "header"
               /\ flags' = NoFlags
               /\ UNCHANGED <<db, committed, idx, successful, failed,
                              outcomes, hist>>
          ELSE Finish(Conn(db, committed), c, FALSE,
                      [NoFlags EXCEPT !.unreadable = TRUE], 0, 0)
  /\ UNCHANGED <<race, server, calc, reports, folder, autocommit, run, json_files, pos, faults>>

\* ----------------------------------------------------- process_json_file
File == Catalog[content]
MatchId == json_files[idx]

\* variant: the except clause of the header statement does not return
PersistHeader_NoReturn ==
  /\ pc = "header"
  /\ \E F \in Choices({<<"matches", "upsert">>}) :
       LET s0 == Conn(db, committed)
           fl == [flags EXCEPT !.nfaults = @ + Cardinality(F)]
           newdb == [db EXCEPT !.matches =
                       UpsertMatch(@, MatchRow(MatchId, File.info))]
           s1 == IF F = {} THEN Commit(Exec(s0, newdb)) ELSE Rollback(s0)
       IN
       /\ faults' = faults + Cardinality(F)
       /\ db' = s1.db
       /\ committed' = s1.committed
       /\ flags' = [fl EXCEPT !.hdr_fail = F # {}]
       /\ pc' = "roster"
       /\ UNCHANGED <<idx, successful, failed, outcomes, hist>>
  /\ UNCHANGED <<race, server, calc, reports, folder, autocommit, run, json_files, content, innings_data,
                 total_deliveries, delivery_errors, pos>>

\* lines 414-442: the insert-or-replace of the match header
PersistHeader ==
  /\ pc = "header"
  /\ \E F \in Choices({<<"matches", "upsert">>}) :
       LET s0 == Conn(db, committed)
           fl == [flags EXCEPT !.nfaults = @ + Cardinality(F)]
       IN
       /\ faults' = faults + Cardinality(F)
       /\ IF F = {}
          THEN LET newdb == [db EXCEPT !.matches =
                               UpsertMatch(@, MatchRow(MatchId, File.info))]
                   s1 == Commit(Exec(s0, newdb))
               IN  /\ db' = s1.db
                   /\ committed' = s1.committed
                   /\ flags' = fl
                   /\ pc' = "roster"
                   /\ UNCHANGED <<idx, successful, failed, outcomes, hist>>
          ELSE Finish(Rollback(s0), content, FALSE,
                      [fl EXCEPT !.hdr_fail = TRUE], 0, 0)
  /\ UNCHANGED <<race, server, calc, reports, folder, autocommit, run, json_files, content, innings_data,
                 total_deliveries, delivery_errors, pos>>

\* for team, player_list in players_info.items(): for player_name in ...
RECURSIVE RosterEntries(_)
RosterEntries(players) ==
  IF players = <<>> THEN <<>>
  ELSE [k \in 1..Len(Head(players).names) |->
          [team |-> Head(players).team, name |-> Head(players).names[k]]]
       \o RosterEntries(Tail(players))

RosterAtoms(entries) ==
  UNION { CallAtoms(k, entries[k].name) \cup
          (IF CallAtoms(k, entries[k].name) = {} THEN {} ELSE {<<k, "link">>})
          : k \in 1..Len(entries) }

\* lines 448-460: the loop body, from entry k on
RECURSIVE RosterLoop(_, _, _, _, _, _)
RosterLoop(s, m, entries, registry, k, F) ==
  IF k > Len(entries) THEN [s |-> s, raised |-> FALSE]
  ELSE LET e == entries[k]
           registry_id == RegistryGet(registry, e.name)
           r == GetOrCreatePlayer(s, e.name, registry_id, F, k)
           s2 == IF r.id # NoId /\ <<k, "link">> \notin F
                 THEN Exec(r.s, [r.s.db EXCEPT !.match_players =
                         UpsertLink(@, m, r.id, e.team, registry_id)])
                 ELSE r.s
       IN  IF r.raised THEN [s |-> r.s, raised |-> TRUE]
           ELSE RosterLoop(s2, m, entries, registry, k + 1, F)

\* lines 444-464: roster links; an exception rolls back, the file goes on
PersistRoster ==
  /\ pc = "roster"
  /\ LET entries == RosterEntries(File.info.players) IN
     \E F \in Choices(RosterAtoms(entries)) :
       LET r == RosterLoop(Conn(db, committed), MatchId, entries,
                           File.info.registry, 1, F)
           s1 == IF r.raised THEN Rollback(r.s) ELSE Commit(r.s)
       IN
       /\ faults' = faults + Cardinality(F)
       /\ db' = s1.db
       /\ committed' = s1.committed
       /\ flags' = [flags EXCEPT
             !.nfaults = @ + Cardinality(F),
             !.roster_fail = r.raised \/ (\E a \in F : a[2] = "link")]
       /\ pc' = "officials"
  /\ UNCHANGED <<race, server, calc, reports, folder, autocommit, run, json_files, idx, successful, failed,
                 content, innings_data, total_deliveries, delivery_errors,
                 pos, outcomes, hist>>

\* The position of the innings walk (lines 493, 516, 521): about to enter
\* innings inn ("I"), over ov ("O") or delivery ball ("D"); "end" when the
\* loop over innings_list is exhausted.  A for loop whose list is exhausted
\* falls through to the enclosing loop.
RECURSIVE Normalize(_, _)
Normalize(file, p) ==
  IF p.kind = "D" /\ p.ball > Len(file.innings[p.inn].overs[p.ov].deliveries)
  THEN Normalize(file, [p EXCEPT !.kind = "O", !.ov = @ + 1, !.ball = 0])
  ELSE IF p.kind = "O" /\ p.ov > Len(file.innings[p.inn].overs)
  THEN Normalize(file, [p EXCEPT !.kind = "I", !.inn = @ + 1, !.ov = 0])
  ELSE IF p.kind = "I" /\ p.inn > Len(file.innings)
  THEN [p EXCEPT !.kind = "end"]
  ELSE p

WalkStart(file) ==
  Normalize(file, [kind |-> "I", inn |-> 1, ov |-> 0, ball |-> 0, seq |-> 1,
                   over_num |-> 0])

PcOf(p) == IF p.kind = "end" THEN "aggregate" ELSE "walk"

\* the four loops of lines 468-483, in order
OfficialEntries(officials) ==
  [k \in 1..Len(officials.umpires) |->
      [role |-> "umpire", name |-> officials.umpires[k]]] \o
  [k \in 1..Len(officials.tv_umpires) |->
      [role |-> "tv_umpire", name |-> officials.tv_umpires[k]]] \o
  [k \in 1..Len(officials.reserve_umpires) |->
      [role |-> "reserve_umpire", name |-> officials.reserve_umpires[k]]] \o
  [k \in 1..Len(officials.match_referees) |->
      [role |-> "match_referee", name |-> officials.match_referees[k]]]

\* INSERT INTO match_officials (match_id, role, name), entries k.. ; the
\* first statement that raises ends the loop
RECURSIVE OfficialsLoop(_, _, _, _, _)
OfficialsLoop(s, m, entries, k, F) ==
  IF k > Len(entries) THEN [s |-> s, raised |-> FALSE]
  ELSE IF <<k, "official">> \in F THEN [s |-> s, raised |-> TRUE]
  ELSE OfficialsLoop(
         Exec(s, [s.db EXCEPT !.match_officials =
            Append(@, [match_id |-> m, role |-> entries[k].role,
                       name |-> entries[k].name])]),
         m, entries, k + 1, F)

\* lines 466-487: officials; an exception rolls back, the file goes on
PersistOfficials ==
  /\ pc = "officials"
  /\ LET entries == OfficialEntries(File.info.officials) IN
     \E F \in Choices({<<k, "official">> : k \in 1..Len(entries)}) :
       LET r == OfficialsLoop(Conn(db, committed), MatchId, entries, 1, F)
           s1 == IF r.raised THEN Rollback(r.s) ELSE Commit(r.s)
       IN
       /\ faults' = faults + Cardinality(F)
       /\ db' = s1.db
       /\ committed' = s1.committed
       /\ flags' = [flags EXCEPT !.nfaults = @ + Cardinality(F),
                                 !.off_fail = r.raised]
       /\ pos' = WalkStart(File)
       /\ pc' = PcOf(WalkStart(File))
       /\ innings_data' = <<>>
       /\ total_deliveries' = 0
       /\ delivery_errors' = 0
  /\ UNCHANGED <<race, server, calc, reports, folder, autocommit, run, json_files, idx, successful, failed,
                 content, outcomes, hist>>

\* line 507: the bowling team of the first innings
BowlingTeamFirst(innings_team, team1, team2) ==
  IF innings_team = team1 THEN team2 ELSE team1

\* line 510: the bowling team of a later innings
BowlingTeamLater(innings_team, team1, team2) ==
  IF innings_team = team2 THEN team1 ELSE team2

\* variant: the bowling team follows from the position of the innings, the
\* first team listed batting first
BowlingTeam_ByPosition(innings_idx, innings_team, team1, team2) ==
  IF innings_idx = 1 THEN team2 ELSE team1

\* lines 505-510: the branch on innings_idx
BowlingTeam(innings_idx, innings_team, team1, team2) ==
  IF innings_idx = 1
  THEN BowlingTeamFirst(innings_team, team1, team2)
  ELSE BowlingTeamLater(innings_team, team1, team2)

\* lines 493-515: a new innings block; counters start at zero
WalkInnings ==
  /\ pc = "walk"
  /\ pos.kind = "I"
  /\ LET innings == File.innings[pos.inn]
         innings_team == innings.team
         team1 == Team1(File.info)
         team2 == Team2(File.info)
         batting_team == innings_team
         bowling_team == BowlingTeam(pos.inn, innings_team, team1, team2)
         np == Normalize(File, [pos EXCEPT !.kind = "O", !.ov = 1, !.seq = 1])
     IN  /\ innings_data' = Append(innings_data,
              [team |-> innings_team, total_runs |-> 0, total_balls |-> 0,
               wickets |-> 0, max_over |-> 0,
               batting_team |-> batting_team, bowling_team |-> bowling_team])
         /\ pos' = np
         /\ pc' = PcOf(np)
  /\ UNCHANGED <<race, server, calc, reports, folder, autocommit, db, committed, run, json_files, idx, successful,
                 failed, content, total_deliveries, delivery_errors, faults,
                 flags, outcomes, hist>>

\* variant: ball_sequence starts again at 1 in every over
OverStart_ResetSequence(p, over_num) ==
  [p EXCEPT !.kind = "D", !.ball = 1, !.over_num = over_num, !.seq = 1]

\* lines 516-521: over_num is read and enumerate(deliveries, 1) starts;
\* ball_sequence, set before the loop over the overs (line 515), is left alone
OverStart(p, over_num) ==
  [p EXCEPT !.kind = "D", !.ball = 1, !.over_num = over_num]

\* variant: an over block without a number counts as over 0
WalkOver_DefaultZero ==
  /\ pc = "walk"
  /\ pos.kind = "O"
  /\ LET over_data == File.innings[pos.inn].overs[pos.ov]
         over_num == IF over_data.has_over THEN over_data.over ELSE 0
         np == Normalize(File, OverStart(pos, over_num))
     IN  /\ innings_data' = [innings_data EXCEPT
               ![pos.inn].max_over = Max(@, over_num)]
         /\ pos' = np
         /\ pc' = PcOf(np)
         /\ UNCHANGED <<db, committed, idx, successful, failed, flags,
                        outcomes, hist>>
  /\ UNCHANGED <<race, server, calc, reports, folder, autocommit, run,
                 json_files, content, total_deliveries, delivery_errors,
                 faults>>

\* lines 516-519: a new over block.  safe_int(None) is None and
\* max(int, None) raises TypeError outside every try of process_json_file:
\* main counts the file as failed and rolls back (lines 674-682)
WalkOver ==
  /\ pc = "walk"
  /\ pos.kind = "O"
  /\ LET over_data == File.innings[pos.inn].overs[pos.ov] IN
     IF over_data.has_over
     THEN LET np == Normalize(File, OverStart(pos, over_data.over))
          IN  /\ innings_data' = [innings_data EXCEPT
                    ![pos.inn].max_over = Max(@, over_data.over)]
              /\ pos' = np
              /\ pc' = PcOf(np)
              /\ UNCHANGED <<db, committed, idx, successful, failed, flags,
                             outcomes, hist>>
     ELSE /\ Finish(Rollback(Conn(db, committed)), content, FALSE,
                    [flags EXCEPT !.raised = TRUE],
                    total_deliveries, delivery_errors)
          /\ UNCHANGED <<innings_data, pos>>
  /\ UNCHANGED <<race, server, calc, reports, folder, autocommit, run, json_files, content, total_deliveries,
                 delivery_errors, faults>>

\* the statements the processing of delivery d can execute
DeliveryAtoms(d) ==
  IF ~d.dict THEN {}
  ELSE LET link(site, name) ==
             IF CallAtoms(site, name) = {} THEN {} ELSE {<<site, "link">>}
           w == d.wickets[1]
       IN  CallAtoms("batter", d.batter) \cup link("batter", d.batter) \cup
           CallAtoms("non_striker", d.non_striker) \cup
           link("non_striker", d.non_striker) \cup
           CallAtoms("bowler", d.bowler) \cup link("bowler", d.bowler) \cup
           (IF Len(d.wickets) > 0
            THEN CallAtoms("player_out", w.player_out) \cup
                 (IF Len(w.fielders) > 0
                  THEN CallAtoms("fielder", w.fielders[1]) ELSE {})
            ELSE {}) \cup
           {<<"deliveries", "insert">>}

\* variant: a call that yields no identifier raises in the caller
ResolvePlayer_RaiseOnNone(acc, name, registry, F, site) ==
  IF acc.raised THEN acc
  ELSE LET r == GetOrCreatePlayer(acc.s, name, RegistryGet(registry, name),
                                  F, site)
       IN  [s |-> r.s, raised |-> r.raised \/ r.id = NoId,
            ids |-> Append(acc.ids, r.id)]

\* One get_or_create_player call of the try block (lines 527-529, 563-571).
\* acc carries the connection, whether an exception is pending, and the ids
\* resolved so far, in call order.
ResolvePlayer(acc, name, registry, F, site) ==
  IF acc.raised THEN acc
  ELSE LET r == GetOrCreatePlayer(acc.s, name, RegistryGet(registry, name),
                                  F, site)
       IN  [s |-> r.s, raised |-> r.raised, ids |-> Append(acc.ids, r.id)]

\* no call is made: the id stays None
NoPlayer(acc) ==
  IF acc.raised THEN acc ELSE [acc EXCEPT !.ids = Append(@, NoId)]

\* lines 531-541: if pid and pname: INSERT IGNORE INTO match_players, an
\* error of the statement is swallowed
LinkPlayer(acc, k, pname, m, team, F, site) ==
  IF acc.raised THEN acc
  ELSE IF acc.ids[k] # NoId /\ pname # PyNone /\ pname # <<>> /\
          <<site, "link">> \notin F
  THEN [acc EXCEPT !.s = Exec(@, [@.db EXCEPT !.match_players =
                           InsertIgnoreLink(@, m, acc.ids[k], team)])]
  ELSE acc

\* lines 543-546
RunsTotal(d) ==
  LET runs_batsman == IF d.has_runs THEN d.runs.batter ELSE 0
      runs_extras == IF d.has_runs THEN d.runs.extras ELSE 0
  IN  IF d.has_runs /\ d.runs.total # NoTotal
      THEN d.runs.total ELSE runs_batsman + runs_extras

\* variant: the wicket fields are read from the last dismissal record
DeliveryRow_LastDismissal(m, p, d, ids) ==
  LET is_wicket == Len(d.wickets) > 0
      wicket == d.wickets[Len(d.wickets)]
      has_fielder == is_wicket /\ Len(wicket.fielders) > 0
  IN  [match_id |-> m, innings_number |-> p.inn,
       over_number |-> p.over_num, ball_in_over |-> p.ball,
       ball_sequence |-> p.seq,
       batsman |-> d.batter, batsman_id |-> ids[1],
       non_striker |-> d.non_striker, non_striker_id |-> ids[2],
       bowler |-> d.bowler, bowler_id |-> ids[3],
       runs_batsman |-> IF d.has_runs THEN d.runs.batter ELSE 0,
       runs_extras |-> IF d.has_runs THEN d.runs.extras ELSE 0,
       runs_total |-> RunsTotal(d), is_wicket |-> is_wicket,
       wicket_kind |-> IF is_wicket THEN wicket.kind ELSE Null,
       wicket_player |-> IF is_wicket THEN wicket.player_out ELSE PyNone,
       wicket_player_id |-> ids[4],
       fielder |-> IF has_fielder THEN wicket.fielders[1] ELSE PyNone,
       fielder_id |-> ids[5]]

\* the parameter tuple of the INSERT INTO deliveries statement (lines 583-595)
DeliveryRow(m, p, d, ids) ==
  LET is_wicket == Len(d.wickets) > 0
      wicket == d.wickets[1]
      has_fielder == is_wicket /\ Len(wicket.fielders) > 0
  IN  [match_id |-> m, innings_number |-> p.inn,
       over_number |-> p.over_num, ball_in_over |-> p.ball,
       ball_sequence |-> p.seq,
       batsman |-> d.batter, batsman_id |-> ids[1],
       non_striker |-> d.non_striker, non_striker_id |-> ids[2],
       bowler |-> d.bowler, bowler_id |-> ids[3],
       runs_batsman |-> IF d.has_runs THEN d.runs.batter ELSE 0,
       runs_extras |-> IF d.has_runs THEN d.runs.extras ELSE 0,
       runs_total |-> RunsTotal(d), is_wicket |-> is_wicket,
       wicket_kind |-> IF is_wicket THEN wicket.kind ELSE Null,
       wicket_player |-> IF is_wicket THEN wicket.player_out ELSE PyNone,
       wicket_player_id |-> ids[4],
       fielder |-> IF has_fielder THEN wicket.fielders[1] ELSE PyNone,
       fielder_id |-> ids[5]]

\* variant: the counters are updated after the INSERT, so a delivery whose
\* INSERT raises is not counted
StoreDelivery_CountAfterInsert(acc, m, p, d, F) ==
  LET res(st, counted, stored) ==
        [s |-> st, counted |-> counted, stored |-> stored,
         runs_total |-> RunsTotal(d), nwickets |-> Len(d.wickets)]
  IN  IF acc.raised THEN res(acc.s, FALSE, FALSE)
      ELSE IF <<"deliveries", "insert">> \in F THEN res(acc.s, FALSE, FALSE)
      ELSE res(Exec(acc.s, [acc.s.db EXCEPT !.deliveries =
                              Append(@, DeliveryRow(m, p, d, acc.ids))]),
               TRUE, TRUE)

\* lines 578-598: counters, then the INSERT; acc is the state after the
\* player calls
StoreDelivery(acc, m, p, d, F) ==
  LET res(st, counted, stored) ==
        [s |-> st, counted |-> counted, stored |-> stored,
         runs_total |-> RunsTotal(d), nwickets |-> Len(d.wickets)]
  IN  IF acc.raised THEN res(acc.s, FALSE, FALSE)
      ELSE IF <<"deliveries", "insert">> \in F THEN res(acc.s, TRUE, FALSE)
      ELSE res(Exec(acc.s, [acc.s.db EXCEPT !.deliveries =
                              Append(@, DeliveryRow(m, p, d, acc.ids))]),
               TRUE, TRUE)

\* lines 563-571: the dismissed player and the first fielder of a wicket
ResolveWicket(acc, d, registry, F) ==
  IF Len(d.wickets) = 0 THEN NoPlayer(NoPlayer(acc))
  ELSE IF Len(d.wickets[1].fielders) = 0
  THEN NoPlayer(ResolvePlayer(acc, d.wickets[1].player_out, registry, F,
                              "player_out"))
  ELSE ResolvePlayer(
         ResolvePlayer(acc, d.wickets[1].player_out, registry, F,
                       "player_out"),
         d.wickets[1].fielders[1], registry, F, "fielder")

\* lines 527-529: batter, non_striker, bowler, in this order
ResolvePlayers(s, d, registry, F) ==
  IF ~d.dict THEN [s |-> s, raised |-> TRUE, ids |-> <<>>]
  ELSE ResolvePlayer(
         ResolvePlayer(
           ResolvePlayer([s |-> s, raised |-> FALSE, ids |-> <<>>],
                         d.batter, registry, F, "batter"),
           d.non_striker, registry, F, "non_striker"),
         d.bowler, registry, F, "bowler")

\* lines 531-541: the three links, batter and non_striker to the batting team
LinkPlayers(acc, m, d, batting_team, bowling_team, F) ==
  LinkPlayer(
    LinkPlayer(
      LinkPlayer(acc, 1, d.batter, m, batting_team, F, "batter"),
      2, d.non_striker, m, batting_team, F, "non_striker"),
    3, d.bowler, m, bowling_team, F, "bowler")

\* lines 522-598: the try block of one delivery.  The result tells whether
\* the running counters were reached (counted), whether the row was
\* inserted (stored), and the connection state left behind.
DeliveryStep(s, m, p, d, registry, batting_team, bowling_team, F) ==
  StoreDelivery(
    ResolveWicket(
      LinkPlayers(ResolvePlayers(s, d, registry, F), m, d, batting_team,
                  bowling_team, F),
      d, registry, F),
    m, p, d, F)

\* variant: the try block encloses the delivery loop, an exception ends the over
NextDelivery_SkipOver(p, stored) ==
  IF stored
  THEN Normalize(File, [p EXCEPT !.ball = @ + 1, !.seq = @ + 1])
  ELSE Normalize(File, [p EXCEPT !.kind = "O", !.ov = @ + 1, !.ball = 0])

\* lines 521, 597, 600: the delivery loop goes to the next delivery whether
\* the try block ended or the except clause ran; ball_sequence moves only
\* past a stored row
NextDelivery(p, stored) ==
  Normalize(File, [p EXCEPT !.ball = @ + 1,
                            !.seq = IF stored THEN @ + 1 ELSE @])

\* variant: total_deliveries is incremented with the counters of the innings,
\* before the INSERT
CountDelivery_BeforeInsert(td, de, r) ==
  [total_deliveries |-> IF r.counted THEN td + 1 ELSE td,
   delivery_errors |-> IF r.stored THEN de ELSE de + 1]

\* lines 598 and 600-601: the last statement of the try block counts the
\* delivery in total_deliveries, the except clause in delivery_errors
CountDelivery(td, de, r) ==
  [total_deliveries |-> IF r.stored THEN td + 1 ELSE td,
   delivery_errors |-> IF r.stored THEN de ELSE de + 1]

\* lines 521-603: one iteration of the delivery loop, try and except, when
\* the statements of F raise
DeliveryUpdate(F) ==
  LET d == File.innings[pos.inn].overs[pos.ov].deliveries[pos.ball]
      data == innings_data[pos.inn]
      r == DeliveryStep(Conn(db, committed), MatchId, pos, d,
                        File.info.registry, data.batting_team,
                        data.bowling_team, F)
      np == NextDelivery(pos, r.stored)
  IN
  /\ faults' = faults + Cardinality(F)
  /\ flags' = [flags EXCEPT !.nfaults = @ + Cardinality(F)]
  /\ db' = r.s.db
  /\ committed' = r.s.committed
  /\ innings_data' =
       IF r.counted
       THEN [innings_data EXCEPT
               ![pos.inn].total_runs = @ + r.runs_total,
               ![pos.inn].total_balls = @ + 1,
               ![pos.inn].wickets = @ + r.nwickets]
       ELSE innings_data
  /\ total_deliveries' =
       CountDelivery(total_deliveries, delivery_errors, r).total_deliveries
  /\ delivery_errors' =
       CountDelivery(total_deliveries, delivery_errors, r).delivery_errors
  /\ pos' = np
  /\ pc' = PcOf(np)
  /\ UNCHANGED <<race, server, reports, folder, autocommit, run, json_files,
                 idx, successful, failed, content, outcomes, hist>>

\* lines 521-603: one iteration of the delivery loop
ProcessDelivery ==
  /\ pc = "walk"
  /\ pos.kind = "D"
  /\ \E F \in Choices(DeliveryAtoms(
                 File.innings[pos.inn].overs[pos.ov].deliveries[pos.ball])) :
       DeliveryUpdate(F)
  /\ UNCHANGED calc

\* variant: the overs value is the quotient balls / balls_per_over, in tenths
OversPlayed10_Fraction(balls_played, balls_per_over) ==
  (10 * balls_played) \div balls_per_over

\* lines 607-611, in tenths of an over and hundredths of a run per over
OversPlayed10(balls_played, balls_per_over) ==
  LET complete_overs == balls_played \div balls_per_over
      remaining_balls == balls_played % balls_per_over
  IN  IF remaining_balls > 0 THEN 10 * complete_overs + remaining_balls
      ELSE 10 * complete_overs

RunRate100(total_runs, overs10) ==
  IF overs10 > 0 THEN (2000 * total_runs + overs10) \div (2 * overs10) ELSE 0

\* the parameter tuple of the INSERT INTO innings statement
InningsRow(m, innings_num, data, balls_per_over) ==
  LET overs10 == OversPlayed10(data.total_balls, balls_per_over) IN
  [match_id |-> m, innings_number |-> innings_num, team |-> data.team,
   batting_team |-> data.batting_team, bowling_team |-> data.bowling_team,
   total_runs |-> data.total_runs, total_balls |-> data.total_balls,
   wickets |-> data.wickets, overs |-> overs10,
   run_rate |-> RunRate100(data.total_runs, overs10)]

\* lines 606-625: the loop over innings_data, from innings k on; a zero
\* balls_per_over raises ZeroDivisionError inside the try
RECURSIVE AggregatesLoop(_, _, _, _, _, _)
AggregatesLoop(s, m, data, balls_per_over, k, F) ==
  IF k > Len(data) THEN [s |-> s, raised |-> FALSE]
  ELSE IF balls_per_over = 0 \/ <<k, "innings">> \in F
  THEN [s |-> s, raised |-> TRUE]
  ELSE AggregatesLoop(
         Exec(s, [s.db EXCEPT !.innings =
            UpsertInnings(@, InningsRow(m, k, data[k], balls_per_over))]),
         m, data, balls_per_over, k + 1, F)

\* variant: the file counts as successful once the header is committed
AggregatesReturn_AlwaysTrue(raised) == TRUE

\* lines 632-638: return False from the except clause, True otherwise
AggregatesReturn(raised) == ~raised

\* lines 605-638: innings aggregates; commit and True, or rollback and False
PersistAggregates ==
  /\ pc = "aggregate"
  /\ \E F \in Choices({<<k, "innings">> : k \in 1..Len(innings_data)}) :
       LET r == AggregatesLoop(Conn(db, committed), MatchId, innings_data,
                               File.info.balls_per_over, 1, F)
           s1 == IF r.raised THEN Rollback(r.s) ELSE Commit(r.s)
           fl == [flags EXCEPT !.nfaults = @ + Cardinality(F),
                               !.agg_fail = r.raised]
       IN
       /\ faults' = faults + Cardinality(F)
       /\ Finish(s1, content, AggregatesReturn(r.raised), fl, total_deliveries,
                 delivery_errors)
  /\ UNCHANGED <<race, server, calc, reports, folder, autocommit, run, json_files, content, innings_data,
                 total_deliveries, delivery_errors, pos>>

\* lines 687-695: the loop is over, the final statistics are printed
Summary ==
  /\ pc = "summary"
  /\ pc' = "done"
  /\ reports' = Append(reports,
        [files |-> Len(json_files), printed |-> TRUE,
         successful |-> successful, failed |-> failed,
         tables |-> TableCounts(committed),
         status |-> ExitStatus(Len(json_files), failed)])
  /\ UNCHANGED <<race, server, calc, folder, autocommit, db, committed, run,
                 json_files, idx, successful, failed, content, innings_data,
                 total_deliveries, delivery_errors, pos, faults, flags,
                 outcomes, hist>>

\* the loader is started again on the same database: a new process, new
\* locals; the rewritten file may hold another match record by then
Rerun ==
  /\ pc = "done"
  /\ run < MaxRuns
  /\ run' = run + 1
  /\ pc' = "glob"
  /\ json_files' = <<>>
  /\ idx' = 0
  /\ successful' = 0
  /\ failed' = 0
  /\ outcomes' = <<>>
  /\ \E c \in FolderContents[Rewritten] :
       folder' = [folder EXCEPT !.holds[Rewritten] = c]
  /\ UNCHANGED <<race, server, calc, reports, autocommit, db, committed, content, innings_data,
                 total_deliveries, delivery_errors, pos, faults, flags, hist>>

Next ==
  \/ NoFiles
  \/ Glob
  \/ ReadFile
  \/ PersistHeader
  \/ PersistRoster
  \/ PersistOfficials
  \/ WalkInnings
  \/ WalkOver
  \/ ProcessDelivery
  \/ PersistAggregates
  \/ Summary
  \/ Rerun

Spec == Init /\ [][Next]_vars

\* ------------------------------------------------------------ interruption
\* lines 808-809: KeyboardInterrupt is not an Exception, so no except clause
\* of process_json_file or of the file loop handles it; the handler of main
\* prints a message and issues no rollback and no commit.  The process ends,
\* the server discards the open transaction of its connection.  The locals
\* stay as they were when the interrupt arrived.
Interrupt ==
  /\ pc \notin {"done", "interrupted"}
  /\ pc' = "interrupted"
  /\ db' = committed
  /\ UNCHANGED <<race, server, calc, reports, folder, autocommit, committed,
                 run, json_files, idx, successful, failed, outcomes, content,
                 innings_data, total_deliveries, delivery_errors, pos, faults,
                 flags, hist>>

\* one run of the loader that the user may interrupt at any point
NextInterrupt ==
  \/ NoFiles
  \/ Glob
  \/ ReadFile
  \/ PersistHeader
  \/ PersistRoster
  \/ PersistOfficials
  \/ WalkInnings
  \/ WalkOver
  \/ ProcessDelivery
  \/ PersistAggregates
  \/ Summary
  \/ Interrupt

SpecInterrupt == Init /\ [][NextInterrupt]_vars

\* ------------------------------------------------------------- properties
RECURSIVE SumRuns(_)
SumRuns(rows) ==
  IF rows = <<>> THEN 0 ELSE Head(rows).runs_total + SumRuns(Tail(rows))

DeliveriesOf(m, n) ==
  SelectSeq(db.deliveries,
            LAMBDA r : r.match_id = m /\ r.innings_number = n)

\* no file is being processed
BetweenFiles == pc \in {"glob", "read", "summary", "done"}

\* two successive ingestions of match m, the k-th and the next, read the
\* same file content and the first met no storage error
SameFileTwice(m, k) ==
  /\ k + 1 <= Len(hist[m])
  /\ hist[m][k].content = hist[m][k + 1].content
  /\ hist[m][k].clean

\* C1: running process_json_file twice in succession on the same unchanged
\* file leaves the Match rows, the Innings rows and the Match-Player rows of
\* the match equal to those after the first run.
C1_RerunKeepsMatchInningsLinks ==
  \A m \in MatchIds : \A k \in 1..Len(hist[m]) :
    SameFileTwice(m, k) =>
      /\ hist[m][k + 1].matches = hist[m][k].matches
      /\ hist[m][k + 1].innings = hist[m][k].innings
      /\ hist[m][k + 1].match_players = hist[m][k].match_players

C1_Witness ==
  /\ SameFileTwice("m1", 1)
  /\ hist["m1"][1].content = "good"
  /\ Cardinality(hist["m1"][2].matches) = 1
  /\ Cardinality(hist["m1"][2].innings) = 2
  /\ Cardinality(hist["m1"][2].match_players) = 3

\* C2: after any sequence of ingestions, for every Innings row the sum of
\* runs_total over the stored deliveries of that innings equals total_runs
\* and their number equals total_balls (stated for behaviours without
\* storage errors).
C2_DeliveriesMatchAggregates ==
  (BetweenFiles /\ faults = 0) =>
    \A i \in db.innings :
      LET rows == DeliveriesOf(i.match_id, i.innings_number) IN
      /\ SumRuns(rows) = i.total_runs
      /\ Len(rows) = i.total_balls

\* C4: re-ingestion adds no delivery row: each (match, innings number,
\* ball_sequence) triple identifies at most one stored delivery row.
C4_NoDuplicateDeliveries ==
  \A i, j \in 1..Len(db.deliveries) :
    (/\ db.deliveries[i].match_id = db.deliveries[j].match_id
     /\ db.deliveries[i].innings_number = db.deliveries[j].innings_number
     /\ db.deliveries[i].ball_sequence = db.deliveries[j].ball_sequence)
    => i = j

\* C5: re-running the batch over files already ingested leaves every table
\* other than deliveries unchanged; the match_officials rows of a match
\* after two ingestions equal those after one.
C5_RerunKeepsOfficials ==
  \A m \in MatchIds : \A k \in 1..Len(hist[m]) :
    (SameFileTwice(m, k) /\ hist[m][k + 1].clean) =>
      /\ hist[m][k + 1].match_officials = hist[m][k].match_officials
      /\ hist[m][k + 1].matches = hist[m][k].matches
      /\ hist[m][k + 1].innings = hist[m][k].innings
      /\ hist[m][k + 1].match_players = hist[m][k].match_players

\* what process_json_file makes of a file, from the file and the storage
\* errors met while it was processed alone
OverWithoutNumber(file) ==
  \E i \in 1..Len(file.innings) : \E o \in 1..Len(file.innings[i].overs) :
    ~file.innings[i].overs[o].has_over

FileSucceeds(o) ==
  /\ Catalog[o.content].readable
  /\ ~OverWithoutNumber(Catalog[o.content])
  /\ ~o.flags.hdr_fail
  /\ ~o.flags.agg_fail

\* C6: a file that cannot be read or parsed, or whose structure makes
\* process_json_file raise, is counted as failed, that file only; every
\* later file is processed and its outcome is the one it has on its own.
C6_FailureIsolatedToFile ==
  /\ \A k \in 1..Len(outcomes) :
       /\ outcomes[k].match_id = json_files[k]
       /\ outcomes[k].ok <=> FileSucceeds(outcomes[k])
  /\ successful = Cardinality({k \in 1..Len(outcomes) : outcomes[k].ok})
  /\ failed = Cardinality({k \in 1..Len(outcomes) : ~outcomes[k].ok})
  /\ pc \in {"summary", "done"} => Len(outcomes) = Len(json_files)

C6_Witness ==
  /\ pc = "summary"
  /\ Len(outcomes) = 2
  /\ ~outcomes[1].ok
  /\ outcomes[1].flags.unreadable \/ outcomes[1].flags.raised
  /\ outcomes[2].ok
  /\ failed = 1
  /\ successful = 1

\* C7: when the insert-or-replace of the match header raises,
\* process_json_file rolls back and reports failure at once: no table
\* changes in that step, nothing is left uncommitted, the file is counted
\* as failed and the loop is at the next file.
C7_HeaderFailureWritesNothing ==
  [][ (pc = "header" /\ faults' > faults) =>
        /\ db' = db
        /\ committed' = committed
        /\ db' = committed'
        /\ failed' = failed + 1
        /\ successful' = successful
        /\ pc' \in {"read", "summary"}
        /\ Len(outcomes') = Len(outcomes) + 1 ]_vars

C7_Witness ==
  /\ Len(outcomes) = 2
  /\ outcomes[2].flags.hdr_fail
  /\ ~outcomes[2].ok
  /\ outcomes[1].ok
  /\ \A r \in db.matches : r.match_id # outcomes[2].match_id

HeaderCommitted(o) ==
  Catalog[o.content].readable /\ ~o.flags.hdr_fail

\* C8 as claimed: once the header is committed, a failure while persisting
\* roster links, officials or the innings aggregates does not fail the file.
C8_ChildFailureNeverFailsFile ==
  \A k \in 1..Len(outcomes) :
    LET o == outcomes[k] IN
    (/\ HeaderCommitted(o)
     /\ ~o.flags.raised
     /\ o.flags.roster_fail \/ o.flags.off_fail \/ o.flags.agg_fail)
    => o.ok

\* C8 amended: once the header is committed, a failure while persisting
\* roster links or officials does not fail the file; a failure while
\* persisting the innings aggregates makes process_json_file return False
\* and main counts the file as failed.
C8_RosterOfficialsTolerated_AggregatesFatal ==
  \A k \in 1..Len(outcomes) :
    LET o == outcomes[k] IN
    /\ (/\ HeaderCommitted(o)
        /\ ~o.flags.raised
        /\ o.flags.roster_fail \/ o.flags.off_fail
        /\ ~o.flags.agg_fail) => o.ok
    /\ o.flags.agg_fail => ~o.ok
    /\ failed >= Cardinality({j \in 1..Len(outcomes) :
                                outcomes[j].flags.agg_fail})

C8_Witness ==
  \E j, k \in 1..Len(outcomes) :
    /\ outcomes[j].flags.off_fail \/ outcomes[j].flags.roster_fail
    /\ outcomes[j].ok
    /\ outcomes[k].flags.agg_fail
    /\ ~outcomes[k].ok

CurrentDelivery ==
  File.innings[pos.inn].overs[pos.ov].deliveries[pos.ball]

\* C9: a delivery whose processing raises is skipped: the error counter
\* grows by exactly one, no delivery row is stored, the walk goes on with
\* the next delivery of the over, the innings or the file, and the file is
\* not failed by it.  (A delivery either stores its row or counts one error.)
C9_RaisingDeliverySkipped ==
  [][ (pc = "walk" /\ pos.kind = "D") =>
        /\ ~CurrentDelivery.dict => delivery_errors' = delivery_errors + 1
        /\ \/ /\ delivery_errors' = delivery_errors + 1
              /\ total_deliveries' = total_deliveries
              /\ db'.deliveries = db.deliveries
           \/ /\ delivery_errors' = delivery_errors
              /\ total_deliveries' = total_deliveries + 1
              /\ Len(db'.deliveries) = Len(db.deliveries) + 1
        /\ [pos' EXCEPT !.seq = 0] =
             [Normalize(File, [pos EXCEPT !.ball = @ + 1]) EXCEPT !.seq = 0]
        /\ pc' = PcOf(pos')
        /\ idx' = idx
        /\ failed' = failed
        /\ outcomes' = outcomes ]_vars

C9_Witness ==
  \E k \in 1..Len(outcomes) :
    /\ outcomes[k].content = "broken"
    /\ outcomes[k].errors = 1
    /\ outcomes[k].deliveries = 1
    /\ outcomes[k].ok

\* a file processed without any storage error
NoStorageError(o) == o.flags.nfaults = 0

\* C10 as claimed: a file in which exactly one delivery record lacks its
\* nested fields is a successful file with exactly one delivery error, and
\* that delivery is not stored.
C10_MissingFieldsCountOneError ==
  \A k \in 1..Len(outcomes) :
    LET o == outcomes[k] IN
    (o.content = "sparse" /\ NoStorageError(o)) =>
      /\ o.ok
      /\ o.errors = 1
      /\ o.deliveries = 1

\* C10 amended: a file whose header commits and in which one delivery
\* record lacks the batter, non_striker, bowler and runs entries is, absent
\* storage errors, a successful file with no delivery error; that delivery
\* is stored with null player references and zero runs.
C10_MissingFieldsStoredAsNulls ==
  \A k \in 1..Len(outcomes) :
    LET o == outcomes[k] IN
    (o.content = "sparse" /\ NoStorageError(o)) =>
      /\ o.ok
      /\ o.errors = 0
      /\ o.deliveries = 2
      /\ \E i \in 1..Len(db.deliveries) :
           LET r == db.deliveries[i] IN
           /\ r.match_id = o.match_id
           /\ r.ball_in_over = 1
           /\ r.batsman = PyNone /\ r.batsman_id = NoId
           /\ r.non_striker_id = NoId
           /\ r.bowler_id = NoId
           /\ r.runs_total = 0

C10_Witness ==
  \E k \in 1..Len(outcomes) :
    /\ outcomes[k].content = "sparse"
    /\ NoStorageError(outcomes[k])
    /\ outcomes[k].ok
    /\ outcomes[k].deliveries = 2

\* ------------------------------------------- two loaders, one players table
\* Two loader processes, each on its own connection, resolve players at the
\* same time.  A statement is atomic.  With autocommit off a row written by
\* INSERT ... ON DUPLICATE KEY UPDATE stays locked and invisible to the other
\* connection until conn.commit(); a statement on a locked row waits.
Workers == {1, 2}

RaceCalls ==
  { [name |-> A, registry_id |-> "ra"], [name |-> ASp, registry_id |-> Null],
    [name |-> B, registry_id |-> "rb"] }

\* the calls one loader makes, in order
CallLists ==
  [1..MaxCalls -> RaceCalls]

\* The two loaders run the same code: which of them makes which calls does
\* not matter, so each pair of call lists is taken once.
CallPairs == {{a, b} : a \in CallLists, b \in CallLists}

CallsOf(S) ==
  LET a == CHOOSE x \in S : TRUE
      b == IF S = {a} THEN a ELSE CHOOSE y \in S : y # a
  IN  [w \in Workers |-> IF w = 1 THEN a ELSE b]

InitRace ==
  /\ autocommit \in BOOLEAN
  /\ db = EmptyDb
  /\ committed = EmptyDb
  /\ run = 1
  /\ json_files = <<>>
  /\ idx = 0
  /\ successful = 0
  /\ failed = 0
  /\ pc = "race"
  /\ content = "unreadable"
  /\ innings_data = <<>>
  /\ total_deliveries = 0
  /\ delivery_errors = 0
  /\ pos = [kind |-> "I", inn |-> 1, ov |-> 0, ball |-> 0, seq |-> 1,
            over_num |-> 0]
  /\ faults = 0
  /\ flags = NoFlags
  /\ outcomes = <<>>
  /\ hist = [m \in MatchIds |-> <<>>]
  /\ folder = [listing |-> <<>>, holds |-> [m \in MatchIds |-> "unreadable"]]
  /\ reports = <<>>
  /\ server = NoServer
  /\ calc = NoCalc
  /\ \E S \in CallPairs :
       race = [on |-> TRUE, calls |-> CallsOf(S),
               k |-> [w \in Workers |-> 1],
               at |-> [w \in Workers |-> "idle"],
               pending |-> [w \in Workers |-> {}],
               fresh |-> [w \in Workers |-> FALSE],
               lastrowid |-> [w \in Workers |-> NoId],
               results |-> [w \in Workers |-> <<>>]]

\* the players rows connection w reads: committed rows and its own writes
Visible(w) ==
  {p \in db.players :
     \A q \in race.pending[w] : q.player_name # p.player_name}
  \cup race.pending[w]

AllPlayerRows == db.players \cup UNION {race.pending[w] : w \in Workers}

\* the AUTO_INCREMENT counter is shared by all connections
RaceNextId == Cardinality({p.player_id : p \in AllPlayerRows}) + 1

RaceCall(w) == race.calls[w][race.k[w]]

\* the call returns: its result is recorded, the next call can start
RaceReturn(w, id, fault) ==
  [race EXCEPT
     !.results[w] = Append(@, [name |-> RaceCall(w).name, id |-> id,
                               fault |-> fault, fresh |-> race.fresh[w]]),
     !.k[w] = @ + 1,
     !.at[w] = "idle"]

RaceFrame ==
  UNCHANGED <<server, calc, reports, autocommit, run, folder, json_files, idx, successful, failed, pc,
              content, innings_data, total_deliveries, delivery_errors, pos,
              flags, outcomes, hist>>

\* lines 331-337: the guard and clean_name; an empty name returns None
RaceEnter(w) ==
  /\ race.on
  /\ race.at[w] = "idle"
  /\ race.k[w] <= Len(race.calls[w])
  /\ LET name == RaceCall(w).name IN
     IF NameIsEmpty(name)
     THEN race' = RaceReturn(w, NoId, FALSE)
     ELSE race' = [race EXCEPT
            !.at[w] = "insert",
            !.fresh[w] = \A p \in AllPlayerRows :
                            p.player_name # CleanName(name)]
  /\ UNCHANGED <<db, committed, faults>>
  /\ RaceFrame

\* lines 339-345: the INSERT ... ON DUPLICATE KEY UPDATE statement, which
\* waits while another connection holds the row of that name uncommitted
RaceInsert(w) ==
  /\ race.on
  /\ race.at[w] = "insert"
  /\ LET clean == CleanName(RaceCall(w).name)
         players2 == InsertPlayer(Visible(w), clean, RaceCall(w).registry_id,
                                  RaceNextId)
         row == CHOOSE p \in players2 : p.player_name = clean
     IN
     /\ \A v \in Workers \ {w} :
          \A q \in race.pending[v] : q.player_name # clean
     /\ IF autocommit
        THEN /\ db' = [db EXCEPT !.players = players2]
             /\ committed' = db'
             /\ race' = [race EXCEPT !.at[w] = "commit",
                                     !.lastrowid[w] = row.player_id]
        ELSE /\ race' = [race EXCEPT
                  !.at[w] = "commit",
                  !.lastrowid[w] = row.player_id,
                  !.pending[w] =
                     {q \in @ : q.player_name # clean} \cup {row}]
             /\ UNCHANGED <<db, committed>>
  /\ UNCHANGED faults
  /\ RaceFrame

\* lines 339-348: the INSERT statement raises a storage error
RaceInsertFails(w) ==
  /\ race.on
  /\ race.at[w] = "insert"
  /\ faults < MaxFaults
  /\ faults' = faults + 1
  /\ race' = [race EXCEPT !.at[w] = "select"]
  /\ UNCHANGED <<db, committed>>
  /\ RaceFrame

\* lines 346-347: conn.commit(); return cur.lastrowid
RaceCommit(w) ==
  /\ race.on
  /\ race.at[w] = "commit"
  /\ db' = [db EXCEPT !.players = Visible(w)]
  /\ committed' = db'
  /\ race' = [RaceReturn(w, race.lastrowid[w], FALSE) EXCEPT
                !.pending[w] = {}]
  /\ UNCHANGED faults
  /\ RaceFrame

\* lines 348-357: the fallback lookup by name, which may raise as well
RaceSelect(w) ==
  /\ race.on
  /\ race.at[w] = "select"
  /\ \E fail \in BOOLEAN :
       race' = RaceReturn(w,
                 IF fail THEN NoId
                 ELSE SelectPlayerId(Visible(w),
                                     CleanName(RaceCall(w).name)),
                 TRUE)
  /\ UNCHANGED <<db, committed, faults>>
  /\ RaceFrame

NextRace ==
  \/ \E w \in Workers : RaceEnter(w)
  \/ \E w \in Workers : RaceInsert(w)
  \/ \E w \in Workers : RaceInsertFails(w)
  \/ \E w \in Workers : RaceCommit(w)
  \/ \E w \in Workers : RaceSelect(w)

SpecRace == InitRace /\ [][NextRace]_vars

\* the results of the calls that have returned
RaceResults ==
  UNION {{race.results[w][i] : i \in 1..Len(race.results[w])} : w \in Workers}

RaceOver ==
  \A w \in Workers : race.at[w] = "idle" /\ race.k[w] > Len(race.calls[w])

C11_FirstRegistryIdWins ==
  [][ \A p \in db.players : \A q \in db'.players :
        (q.player_name = p.player_name /\ p.registry_id # Null)
          => q.registry_id = p.registry_id ]_vars

C13_WicketHasDismissedPlayer ==
  \A i \in 1..Len(db.deliveries) :
    db.deliveries[i].is_wicket => db.deliveries[i].wicket_player_id # NoId

\* the outcomes of the files of the batch that satisfy a condition
FilesWhere(ok) ==
  Len(SelectSeq(outcomes, LAMBDA o : o.ok = ok))

RECURSIVE SumField(_, _)
SumField(os, field) ==
  IF os = <<>> THEN 0 ELSE Head(os)[field] + SumField(Tail(os), field)

\* C14: the summary printed at the end of a batch gives the number of
\* successful files, of failed files, of deliveries ingested and of delivery
\* errors, each the sum of the per-file values over the files of the batch.
C14_SummaryReportsBatchTotals ==
  (pc = "done" /\ reports # <<>> /\ reports[Len(reports)].printed) =>
    LET r == reports[Len(reports)] IN
    /\ r.successful = FilesWhere(TRUE)
    /\ r.failed = FilesWhere(FALSE)
    /\ {"deliveries", "delivery_errors"} \subseteq DOMAIN r
    /\ r.deliveries = SumField(outcomes, "deliveries")
    /\ r.delivery_errors = SumField(outcomes, "errors")

\* the part of the summary the loader does print: the two file counters
C14_SummaryFileCounters ==
  (pc = "done" /\ reports # <<>> /\ reports[Len(reports)].printed) =>
    LET r == reports[Len(reports)] IN
    /\ r.successful = FilesWhere(TRUE)
    /\ r.failed = FilesWhere(FALSE)
    /\ r.successful + r.failed = r.files

\* the three kinds of run the exit status is to tell apart
RunClass(r) ==
  IF r.files = 0 THEN "no files"
  ELSE IF r.failed > 0 THEN "failures" ELSE "success"

\* C15: the exit status of the loader distinguishes a run that found no
\* input file, a run with at least one failed file and a run in which every
\* file succeeded: two runs of different kinds never end with the same status.
C15_ExitStatusDistinguishesRuns ==
  \A i \in 1..Len(reports) : \A j \in 1..Len(reports) :
    RunClass(reports[i]) # RunClass(reports[j]) =>
      reports[i].status # reports[j].status

\* C16: the rows of a file of the batch that was processed successfully stay
\* as they were when its processing ended, in the committed image and in the
\* view of the connection, whatever happens to the files after it: a rollback
\* for a later file, a later file that fails, or an interruption of the batch.
C16_CommittedFilesSurvive ==
  \A k \in 1..Len(outcomes) :
    outcomes[k].ok =>
      LET m == outcomes[k].match_id
          h == hist[m][Len(hist[m])]
      IN  /\ Snapshot(committed, m, h.content, outcomes[k].flags) = h
          /\ Snapshot(db, m, h.content, outcomes[k].flags) = h

\* the first file succeeded with deliveries stored; the batch was interrupted
\* while the second file had inserted deliveries that were not committed
C16_Witness ==
  /\ pc = "interrupted"
  /\ ~autocommit
  /\ Len(outcomes) = 1 /\ outcomes[1].ok
  /\ hist[outcomes[1].match_id][1].ndeliveries > 0
  /\ idx = 2 /\ total_deliveries > 0
  /\ \A i \in 1..Len(committed.deliveries) :
       committed.deliveries[i].match_id # json_files[idx]

\* ------------------------------------------------- the direct SQL tool
\* (src/main.py) text is a tuple of characters, as for the player names

\* the variables of the loader, unused while the server or a computation
\* alone is examined
LoaderAtRest ==
  /\ autocommit = FALSE
  /\ db = EmptyDb
  /\ committed = EmptyDb
  /\ run = 1
  /\ json_files = <<>>
  /\ idx = 0
  /\ successful = 0
  /\ failed = 0
  /\ pc = "off"
  /\ content = "unreadable"
  /\ innings_data = <<>>
  /\ total_deliveries = 0
  /\ delivery_errors = 0
  /\ pos = [kind |-> "I", inn |-> 1, ov |-> 0, ball |-> 0, seq |-> 1,
            over_num |-> 0]
  /\ faults = 0
  /\ flags = NoFlags
  /\ outcomes = <<>>
  /\ hist = [m \in MatchIds |-> <<>>]
  /\ folder = [listing |-> <<>>, holds |-> [m \in MatchIds |-> "unreadable"]]
  /\ reports = <<>>
  /\ race = NoRace

LoaderFrame ==
  UNCHANGED <<autocommit, db, committed, run, json_files, idx, successful,
              failed, pc, content, innings_data, total_deliveries,
              delivery_errors, pos, faults, flags, outcomes, hist, folder,
              reports, race>>

\* str.upper(), on the letters
UpperOf ==
  [a |-> "A", b |-> "B", c |-> "C", d |-> "D", e |-> "E", f |-> "F", g |->
   "G", h |-> "H", i |-> "I", j |-> "J", k |-> "K", l |-> "L", m |-> "M", n
   |-> "N", o |-> "O", p |-> "P", q |-> "Q", r |-> "R", s |-> "S", t |-> "T",
   u |-> "U", v |-> "V", w |-> "W", x |-> "X", y |-> "Y", z |-> "Z"]

UpperChar(ch) == IF ch \in DOMAIN UpperOf THEN UpperOf[ch] ELSE ch

Upper(s) == [i \in 1..Len(s) |-> UpperChar(s[i])]

\* str.startswith
StartsWith(s, prefix) ==
  Len(s) >= Len(prefix) /\ SubSeq(s, 1, Len(prefix)) = prefix

\* DB_MAX_RETRIES = int(os.getenv('DB_MAX_RETRIES', 3))
DB_MAX_RETRIES == 3

\* allowed_statements = ['SELECT', 'SHOW', 'DESCRIBE', 'DESC', 'EXPLAIN']
allowed_statements ==
  << <<"S", "E", "L", "E", "C", "T">>,
     <<"S", "H", "O", "W">>,
     <<"D", "E", "S", "C", "R", "I", "B", "E">>,
     <<"D", "E", "S", "C">>,
     <<"E", "X", "P", "L", "A", "I", "N">> >>

\* The statements a caller sends, with what the MySQL server does with each
\* when it is executed: "read" returns rows and changes nothing, "write"
\* changes a table or a file of the server, "syntax error" is rejected by the
\* parser of the server.
Cores ==
  { [text |-> <<"s", "e", "l", "e", "c", "t", " ", "1">>,
     effect |-> "read"],
    [text |-> <<"S", "E", "L", "E", "C", "T", " ", "1">>,
     effect |-> "read"],
    [text |-> <<"S", "h", "o", "w", " ", "t", "a", "b", "l", "e", "s">>,
     effect |-> "read"],
    [text |-> <<"D", "E", "S", "C", " ", "t">>,
     effect |-> "read"],
    [text |-> <<"d", "e", "s", "c", "r", "i", "b", "e", " ", "t">>,
     effect |-> "read"],
    [text |-> <<"E", "X", "P", "L", "A", "I", "N", " ", "S", "E", "L", "E", "C", "T", " ", "1">>,
     effect |-> "read"],
    [text |-> <<"W", "I", "T", "H", " ", "c", " ", "A", "S", " ", "(", "S", "E", "L", "E", "C", "T", " ", "1", ")", " ", "S", "E", "L", "E", "C", "T", " ", "*", " ", "F", "R", "O", "M", " ", "c">>,
     effect |-> "read"],
    [text |-> <<"S", "E", "L", "E", "C", "T", " ", "1", " ", "I", "N", "T", "O", " ", "O", "U", "T", "F", "I", "L", "E", " ", "'", "f", "'">>,
     effect |-> "write"],
    [text |-> <<"D", "R", "O", "P", " ", "T", "A", "B", "L", "E", " ", "t">>,
     effect |-> "write"],
    [text |-> <<"d", "e", "l", "e", "t", "e", " ", "f", "r", "o", "m", " ", "t">>,
     effect |-> "write"],
    [text |-> <<"S", "E", "L", "E", "C", "T", "E", "D">>,
     effect |-> "syntax error"],
    [text |-> <<>>,
     effect |-> "blank"] }

Paddings == {<<>>, <<" ">>}

\* each statement with and without blanks around it
Queries ==
  { [text |-> lead \o c.text \o trail, effect |-> c.effect] :
      lead \in Paddings, c \in Cores, trail \in Paddings }

\* number of tool calls examined
MaxQueries == 2

\* EnhancedIPLDatabase.__init__ and the start of the server: no connection,
\* no call made yet
ServerStart ==
  [on |-> TRUE, pc |-> "idle", ncall |-> 0, sql_query |-> <<>>,
   effect |-> "blank", is_connected |-> FALSE, attempt |-> 0,
   connects |-> 0, executed |-> FALSE, passed |-> <<>>, wrote |-> FALSE,
   result |-> "none"]

InitSql ==
  /\ LoaderAtRest
  /\ calc = NoCalc
  /\ server = ServerStart

\* `not sql_query or not sql_query.strip()`
IsBlank(sql_query) == sql_query = <<>> \/ Strip(sql_query) = <<>>

\* any(sql_clean.startswith(stmt) for stmt in allowed_statements), with
\* sql_clean = sql_query.strip().upper()
Allowed(sql_query) ==
  \E k \in 1..Len(allowed_statements) :
    StartsWith(Upper(Strip(sql_query)), allowed_statements[k])

\* lines 761-777: a call of the tool; the two tests return an error text,
\* otherwise database.execute_query is entered with the text as it came
CallSql ==
  /\ server.on
  /\ server.pc = "idle"
  /\ server.ncall < MaxQueries
  /\ \E q \in Queries :
       LET s0 == [server EXCEPT !.ncall = @ + 1, !.sql_query = q.text,
                                !.effect = q.effect, !.attempt = 0,
                                !.connects = 0, !.executed = FALSE,
                                !.passed = <<>>, !.wrote = FALSE]
       IN  server' =
             IF IsBlank(q.text) THEN [s0 EXCEPT !.result = "validation error"]
             ELSE IF ~Allowed(q.text)
             THEN [s0 EXCEPT !.result = "security error"]
             ELSE [s0 EXCEPT !.result = "none", !.pc = "execute_query"]
  /\ UNCHANGED calc
  /\ LoaderFrame

\* lines 111-113: if not self.is_connected: await self.connect()
EnterExecuteQuery ==
  /\ server.on
  /\ server.pc = "execute_query"
  /\ server' = [server EXCEPT !.pc = IF server.is_connected THEN "cursor"
                                     ELSE "connect",
                              !.attempt = 0]
  /\ UNCHANGED calc
  /\ LoaderFrame

\* variant: the error is raised again one round later
ConnectAttempt_OneMore ==
  /\ server.on
  /\ server.pc = "connect"
  /\ \E connected \in BOOLEAN :
       server' =
         IF connected
         THEN [server EXCEPT !.connects = @ + 1, !.is_connected = TRUE,
                             !.pc = "cursor"]
         ELSE IF server.attempt = DB_MAX_RETRIES
         THEN [server EXCEPT !.connects = @ + 1, !.pc = "idle",
                             !.result = "execution error"]
         ELSE [server EXCEPT !.connects = @ + 1, !.attempt = @ + 1]
  /\ UNCHANGED calc
  /\ LoaderFrame

\* lines 93-104: one round of `for attempt in range(DB_MAX_RETRIES)`; the
\* connection is made, or mysql.connector.Error is raised: on the last round
\* it leaves connect and execute_query and the tool returns its execution
\* error text (lines 779-788), on the other rounds the loop sleeps and goes on
ConnectAttempt ==
  /\ server.on
  /\ server.pc = "connect"
  /\ \E connected \in BOOLEAN :
       server' =
         IF connected
         THEN [server EXCEPT !.connects = @ + 1, !.is_connected = TRUE,
                             !.pc = "cursor"]
         ELSE IF server.attempt = DB_MAX_RETRIES - 1
         THEN [server EXCEPT !.connects = @ + 1, !.pc = "idle",
                             !.result = "execution error"]
         ELSE [server EXCEPT !.connects = @ + 1, !.attempt = @ + 1]
  /\ UNCHANGED calc
  /\ LoaderFrame

\* lines 117-152: cursor.execute(sql, params or []) sends the text to the
\* server, which runs it; a mysql.connector.Error becomes the query error text
ExecuteSql ==
  /\ server.on
  /\ server.pc = "cursor"
  /\ \E lost \in BOOLEAN :
       server' =
         IF lost
         THEN [server EXCEPT !.pc = "idle", !.result = "query error"]
         ELSE [server EXCEPT !.pc = "idle", !.executed = TRUE,
                             !.passed = server.sql_query,
                             !.wrote = server.effect = "write",
                             !.result = IF server.effect = "syntax error"
                                        THEN "query error" ELSE "rows"]
  /\ UNCHANGED calc
  /\ LoaderFrame

NextSql ==
  \/ CallSql
  \/ EnterExecuteQuery
  \/ ConnectAttempt
  \/ ExecuteSql

SpecSql == InitSql /\ [][NextSql]_vars

\* C17: a statement reaches the database only if it is a read-only statement
\* whose trimmed, upper-cased text begins with SELECT, SHOW, DESCRIBE, DESC
\* or EXPLAIN; a blank statement ends in the validation error and any other
\* statement in the security error, both without a connection attempt and
\* without an execution.
C17_OnlyReadOnlyStatementsReachDatabase ==
  server.on =>
    /\ server.executed =>
         (server.effect = "read" /\ Allowed(server.sql_query))
    /\ (server.ncall > 0 /\ IsBlank(server.sql_query)) =>
         (server.result = "validation error" /\ server.connects = 0 /\
          ~server.executed)
    /\ (server.ncall > 0 /\ ~IsBlank(server.sql_query) /\
        ~Allowed(server.sql_query)) =>
         (server.result = "security error" /\ server.connects = 0 /\
          ~server.executed)

\* what the two tests of the tool do guarantee: the text that reaches the
\* database passed the prefix test and is passed as it came; a blank or a
\* refused text costs no connection attempt and no execution
C17_PrefixGate ==
  server.on =>
    /\ server.executed =>
         (Allowed(server.sql_query) /\ server.passed = server.sql_query)
    /\ server.connects > 0 => Allowed(server.sql_query)
    /\ (server.ncall > 0 /\ IsBlank(server.sql_query)) =>
         (server.result = "validation error" /\ server.connects = 0 /\
          ~server.executed)
    /\ (server.ncall > 0 /\ ~IsBlank(server.sql_query) /\
        ~Allowed(server.sql_query)) =>
         (server.result = "security error" /\ server.connects = 0 /\
          ~server.executed)

\* the delivery rows of match m appended since its last ingestion ended
NewRows(m) ==
  LET rows == SelectSeq(db.deliveries, LAMBDA r : r.match_id = m)
      before == IF hist[m] = <<>> THEN 0
                ELSE hist[m][Len(hist[m])].ndeliveries
  IN  SubSeq(rows, before + 1, Len(rows))

NewRowsOfInnings(m, k) ==
  SelectSeq(NewRows(m), LAMBDA r : r.innings_number = k)

\* C18: while a file is walked and when its walk is over, the delivery rows
\* this ingestion stored for an innings carry, in the order they were
\* stored, the ball_sequence values 1, 2, ..., n: no reset at an over
\* boundary and no gap where a delivery was skipped.
C18_BallSequenceCountsStoredRows ==
  pc \in {"walk", "aggregate"} =>
    \A k \in 1..Len(File.innings) :
      \A i \in 1..Len(NewRowsOfInnings(MatchId, k)) :
        NewRowsOfInnings(MatchId, k)[i].ball_sequence = i

\* an innings with a stored row in each of two overs, ingested a second time
C18_Witness ==
  /\ pc = "aggregate"
  /\ hist[MatchId] # <<>> /\ hist[MatchId][1].ndeliveries > 0
  /\ Len(NewRowsOfInnings(MatchId, 1)) = 2
  /\ NewRowsOfInnings(MatchId, 1)[1].over_number #
       NewRowsOfInnings(MatchId, 1)[2].over_number

\* the deliveries of an innings record, in record order
RECURSIVE DeliveriesOfOvers(_)
DeliveriesOfOvers(overs) ==
  IF overs = <<>> THEN <<>>
  ELSE Head(overs).deliveries \o DeliveriesOfOvers(Tail(overs))

\* the fields of the delivery are read without an exception: the delivery is
\* an object and none of its player names is a number
Parses(d) ==
  /\ d.dict
  /\ PyInt \notin {d.batter, d.non_striker, d.bowler}
  /\ Len(d.wickets) > 0 =>
       /\ d.wickets[1].player_out # PyInt
       /\ Len(d.wickets[1].fielders) > 0 => d.wickets[1].fielders[1] # PyInt

ParsedDeliveries(k) ==
  SelectSeq(DeliveriesOfOvers(File.innings[k].overs), Parses)

RECURSIVE SumTotals(_)
SumTotals(ds) ==
  IF ds = <<>> THEN 0 ELSE RunsTotal(Head(ds)) + SumTotals(Tail(ds))

RECURSIVE SumDismissals(_)
SumDismissals(ds) ==
  IF ds = <<>> THEN 0 ELSE Len(Head(ds).wickets) + SumDismissals(Tail(ds))

\* C19: when the walk of a file is over, the counters of each innings are
\* those of its parsed deliveries, stored or not: total_balls is their number,
\* total_runs the sum of their total runs, wickets the sum of the lengths of
\* their dismissal lists.
C19_CountersCountParsedDeliveries ==
  pc = "aggregate" =>
    /\ Len(innings_data) = Len(File.innings)
    /\ \A k \in 1..Len(File.innings) :
         /\ innings_data[k].total_balls = Len(ParsedDeliveries(k))
         /\ innings_data[k].total_runs = SumTotals(ParsedDeliveries(k))
         /\ innings_data[k].wickets = SumDismissals(ParsedDeliveries(k))

\* the INSERT of a delivery with two dismissals raised: no row is stored for
\* the innings, the delivery is counted with two wickets
C19_Witness ==
  /\ pc = "aggregate"
  /\ hist[MatchId] = <<>>
  /\ NewRowsOfInnings(MatchId, 1) = <<>>
  /\ innings_data[1].total_balls = 1
  /\ innings_data[1].wickets = 2
  /\ delivery_errors = 2

\* ------------------------------------------- the aggregates of one innings
\* the ball counts and balls-per-over values examined
MaxBalls == 18
MaxPerOver == 6

\* total_runs values examined
CalcRuns == {0, 9}

\* the counters of one innings when the aggregates loop starts
InitOvers ==
  /\ LoaderAtRest
  /\ server = NoServer
  /\ \E b \in 0..MaxBalls : \E k \in 1..MaxPerOver : \E r \in CalcRuns :
       calc = [on |-> TRUE, done |-> FALSE, balls_per_over |-> k,
               data |-> [team |-> "X", total_runs |-> r, total_balls |-> b,
                         wickets |-> 0, max_over |-> 0,
                         batting_team |-> "X", bowling_team |-> "Y"],
               row |-> <<>>]

\* lines 606-625: one round of the aggregates loop builds the parameter
\* tuple of the innings statement
ComputeAggregates ==
  /\ calc.on
  /\ ~calc.done
  /\ calc' = [calc EXCEPT !.done = TRUE,
                          !.row = InningsRow("m1", 1, calc.data,
                                             calc.balls_per_over)]
  /\ UNCHANGED server
  /\ LoaderFrame

NextOvers == ComputeAggregates

SpecOvers == InitOvers /\ [][NextOvers]_vars

\* floor(b / k): the number q with q * k <= b < (q + 1) * k
FloorDiv(b, k) == CHOOSE q \in 0..b : q * k <= b /\ b < (q + 1) * k

\* C20: for b balls and k >= 1 balls per over the overs value of the innings
\* row is floor(b/k) + (b mod k)/10 when b mod k > 0 and floor(b/k) otherwise
\* (here in tenths of an over); with k = 6, 17 balls give 2.5 and 18 balls
\* give 3.0.
C20_OversPlayed ==
  (calc.on /\ calc.done) =>
    LET b == calc.data.total_balls
        k == calc.balls_per_over
        q == FloorDiv(b, k)
        r == b - q * k
    IN  /\ calc.row.overs = IF r > 0 THEN 10 * q + r ELSE 10 * q
        /\ (b = 17 /\ k = 6) => calc.row.overs = 25
        /\ (b = 18 /\ k = 6) => calc.row.overs = 30

\* 17 balls at 6 balls per over
C20_Witness ==
  /\ calc.on /\ calc.done
  /\ calc.data.total_balls = 17 /\ calc.balls_per_over = 6
  /\ calc.row.overs = 25

\* ------------------------------------------------- the header of one match
\* the margins examined
MaxMargin == 7

\* the by-records of an outcome: any of the keys runs and wickets
ByRecords ==
  UNION { [K -> 0..MaxMargin] : K \in SUBSET {"runs", "wickets"} }

\* the outcomes examined: no by-record, or one of ByRecords
Outcomes ==
  { [has_by |-> FALSE, by |-> <<>>] } \cup
  { [has_by |-> TRUE, by |-> b] : b \in ByRecords }

\* the info object of a match record whose outcome is o
InitMargin ==
  /\ LoaderAtRest
  /\ server = NoServer
  /\ \E o \in Outcomes :
       calc = [on |-> TRUE, done |-> FALSE,
               info |-> [InfoXY EXCEPT !.has_by = o.has_by, !.by = o.by],
               row |-> <<>>]

\* lines 375-436: the header fields are extracted and the parameter tuple of
\* the matches statement is built
ExtractHeader ==
  /\ calc.on
  /\ ~calc.done
  /\ calc' = [calc EXCEPT !.done = TRUE, !.row = MatchRow("m1", calc.info)]
  /\ UNCHANGED server
  /\ LoaderFrame

NextMargin == ExtractHeader

SpecMargin == InitMargin /\ [][NextMargin]_vars

\* C21: the margin of the matches row is "<n> runs" when the by-record has a
\* runs key, "<n> wickets" when it has a wickets key and no runs key, and
\* unset when there is no by-record or the by-record has neither key; a
\* margin is never both renderings.
C21_MarginRendering ==
  (calc.on /\ calc.done) =>
    LET has_by == calc.info.has_by
        keys == IF has_by THEN DOMAIN calc.info.by ELSE {}
        margin == calc.row.margin
    IN  /\ "runs" \in keys => margin = <<calc.info.by["runs"], "runs">>
        /\ ("wickets" \in keys /\ "runs" \notin keys) =>
             margin = <<calc.info.by["wickets"], "wickets">>
        /\ keys \cap {"runs", "wickets"} = {} => margin = NoMargin
        /\ margin # NoMargin =>
             (margin[2] \in {"runs", "wickets"} /\
              ~(margin[2] = "runs" /\ margin[2] = "wickets"))
        /\ (has_by /\ calc.info.by = [runs |-> 7]) => margin = <<7, "runs">>
        /\ (has_by /\ calc.info.by = [wickets |-> 4]) =>
             margin = <<4, "wickets">>

\* a by-record with both keys: the runs rendering is stored
C21_Witness ==
  /\ calc.on /\ calc.done
  /\ calc.info.has_by
  /\ DOMAIN calc.info.by = {"runs", "wickets"}
  /\ calc.info.by["runs"] = 7 /\ calc.info.by["wickets"] = 4
  /\ calc.row.margin = <<7, "runs">>

\* the team of the match that is not t
OtherTeam(info, t) == IF t = Team1(info) THEN Team2(info) ELSE Team1(info)

\* the side that bats first according to the toss
BatsFirst(info) ==
  IF info.toss_decision = "bat" THEN info.toss_winner
  ELSE OtherTeam(info, info.toss_winner)

\* C22: the batting and bowling team stored for innings n alternate from the
\* toss outcome: the side that bats first by the toss is the batting team of
\* the odd-numbered innings and the bowling team of the even-numbered ones.
C22_TeamsAlternateFromToss ==
  \A m \in MatchIds : \A i \in 1..Len(hist[m]) :
    hist[m][i].clean =>
      \A r \in hist[m][i].innings :
        LET info == Catalog[hist[m][i].content].info
            first == BatsFirst(info)
            second == OtherTeam(info, first)
        IN  IF r.innings_number % 2 = 1
            THEN r.batting_team = first /\ r.bowling_team = second
            ELSE r.batting_team = second /\ r.bowling_team = first

\* ------------------------------------- one run with the failing statements
\* The delivery step of one run of the loader, with the statements that
\* raised in it written down next to the state (calc.F) and the delivery
\* record it read (calc.d).
ProcessDeliveryTraced ==
  /\ pc = "walk"
  /\ pos.kind = "D"
  /\ \E F \in Choices(DeliveryAtoms(
                 File.innings[pos.inn].overs[pos.ov].deliveries[pos.ball])) :
       /\ DeliveryUpdate(F)
       /\ calc' = [on |-> FALSE, F |-> F,
                   d |-> File.innings[pos.inn].overs[pos.ov]
                           .deliveries[pos.ball]]

NextResolve ==
  \/ NoFiles
  \/ Glob
  \/ ReadFile
  \/ PersistHeader
  \/ PersistRoster
  \/ PersistOfficials
  \/ WalkInnings
  \/ WalkOver
  \/ ProcessDeliveryTraced
  \/ PersistAggregates
  \/ Summary

SpecResolve == Init /\ [][NextResolve]_vars

\* get_or_create_player yields no identifier for the name: the name is empty
\* or the INSERT and the SELECT of the call both raised
Unresolved(name, site, F) == NameIsEmpty(name) \/ <<site, "both">> \in F

LastRow(d) == d.deliveries[Len(d.deliveries)]

\* C23: when get_or_create_player yields no identifier for the batter, the
\* non-striker, the bowler, the dismissed player or the fielder of a delivery
\* (and the INSERT of the delivery itself does not raise), the row is stored
\* with that reference null and the name as read, the delivery counts as
\* ingested and not as an error, and the file goes on: it is not failed.
C23_UnresolvedPlayerStoredAsNull ==
  [][ (pc = "walk" /\ pos.kind = "D" /\ Parses(CurrentDelivery) /\
       <<"deliveries", "insert">> \notin calc'.F) =>
        LET d == CurrentDelivery
            F == calc'.F
            row == LastRow(db')
            wicket == Len(d.wickets) > 0
            fielder == wicket /\ Len(d.wickets[1].fielders) > 0
        IN  /\ Len(db'.deliveries) = Len(db.deliveries) + 1
            /\ total_deliveries' = total_deliveries + 1
            /\ delivery_errors' = delivery_errors
            /\ failed' = failed /\ outcomes' = outcomes /\ idx' = idx
            /\ Unresolved(d.batter, "batter", F) =>
                 (row.batsman_id = NoId /\ row.batsman = d.batter)
            /\ Unresolved(d.non_striker, "non_striker", F) =>
                 (row.non_striker_id = NoId /\
                  row.non_striker = d.non_striker)
            /\ Unresolved(d.bowler, "bowler", F) =>
                 (row.bowler_id = NoId /\ row.bowler = d.bowler)
            /\ (wicket /\ Unresolved(d.wickets[1].player_out, "player_out", F))
                 => (row.wicket_player_id = NoId /\
                     row.wicket_player = d.wickets[1].player_out)
            /\ (fielder /\ Unresolved(d.wickets[1].fielders[1], "fielder", F))
                 => (row.fielder_id = NoId /\
                     row.fielder = d.wickets[1].fielders[1]) ]_vars

\* the INSERT and the SELECT for a named batter both raised; the row of the
\* delivery is stored without batsman_id and no delivery error is counted
C23_Witness ==
  /\ "F" \in DOMAIN calc
  /\ <<"batter", "both">> \in calc.F
  /\ ~NameIsEmpty(calc.d.batter)
  /\ db.deliveries # <<>>
  /\ LastRow(db).batsman = calc.d.batter
  /\ LastRow(db).batsman_id = NoId
  /\ delivery_errors = 0
  /\ total_deliveries > 0

\* C24: a delivery step adds a match_players row only for a (match, player)
\* pair that has none: every link that exists before the step is there
\* unchanged after it, team and registry label included; and match_players
\* never holds two rows for one (match, player) pair.
C24_DeliveryLinkOnlyWhenMissing ==
  [][ /\ \A l1 \in db'.match_players : \A l2 \in db'.match_players :
           (l1.match_id = l2.match_id /\ l1.player_id = l2.player_id)
             => l1 = l2
      /\ (pc = "walk" /\ pos.kind = "D") =>
           \A l \in db.match_players : l \in db'.match_players ]_vars

\* the batter of a stored delivery already had a roster link with a registry
\* label; the link still carries the label
C24_Witness ==
  \E l \in db.match_players :
    /\ l.registry_name # Null
    /\ \E i \in 1..Len(db.deliveries) :
         /\ db.deliveries[i].match_id = l.match_id
         /\ db.deliveries[i].batsman_id = l.player_id

\* the id is null or that of the players row of the name
IdOfName(id, name, players) ==
  id = NoId \/
  \E q \in players : q.player_id = id /\ q.player_name = CleanName(name)

\* C25: a delivery yields at most one row.  With k >= 1 dismissal records the
\* row has is_wicket = TRUE, and kind, dismissed player and fielder are those
\* of the first record and of its first fielder; with no dismissal record the
\* row has is_wicket = FALSE and every wicket field is unset.
C25_FirstDismissalOnly ==
  [][ (pc = "walk" /\ pos.kind = "D") =>
        /\ Len(db'.deliveries) \in {Len(db.deliveries), Len(db.deliveries) + 1}
        /\ SubSeq(db'.deliveries, 1, Len(db.deliveries)) = db.deliveries
        /\ Len(db'.deliveries) = Len(db.deliveries) + 1 =>
             LET d == CurrentDelivery
                 row == LastRow(db')
             IN  IF Len(d.wickets) >= 1
                 THEN /\ row.is_wicket
                      /\ row.wicket_kind = d.wickets[1].kind
                      /\ row.wicket_player = d.wickets[1].player_out
                      /\ IdOfName(row.wicket_player_id,
                                  d.wickets[1].player_out, db'.players)
                      /\ IF Len(d.wickets[1].fielders) >= 1
                         THEN /\ row.fielder = d.wickets[1].fielders[1]
                              /\ IdOfName(row.fielder_id,
                                          d.wickets[1].fielders[1],
                                          db'.players)
                         ELSE row.fielder = PyNone /\ row.fielder_id = NoId
                 ELSE /\ ~row.is_wicket
                      /\ row.wicket_kind = Null
                      /\ row.wicket_player = PyNone
                      /\ row.wicket_player_id = NoId
                      /\ row.fielder = PyNone
                      /\ row.fielder_id = NoId ]_vars

\* a delivery with two dismissal records that name different players is
\* stored with the player of the first record
C25_Witness ==
  /\ "d" \in DOMAIN calc
  /\ Len(calc.d.wickets) = 2
  /\ calc.d.wickets[1].player_out # calc.d.wickets[2].player_out
  /\ db.deliveries # <<>>
  /\ LastRow(db).is_wicket
  /\ LastRow(db).wicket_player = calc.d.wickets[1].player_out
  /\ total_deliveries = 1

\* the (name, identifier) pairs a delivery row holds, one per player call
RolePairs(r) ==
  { <<r.batsman, r.batsman_id>>, <<r.non_striker, r.non_striker_id>>,
    <<r.bowler, r.bowler_id>>, <<r.wicket_player, r.wicket_player_id>>,
    <<r.fielder, r.fielder_id>> }

\* the pairs of the calls that had a name to resolve
NamedPairs(r) == {a \in RolePairs(r) : ~NameIsEmpty(a[1])}

\* C26 as claimed: once a call has returned identifier p for a name, every
\* later call with the same trimmed name returns p (rows are stored in call
\* order: the pairs of a later row come from later calls).
C26_LaterCallReturnsSameId ==
  \A i \in 1..Len(db.deliveries) : \A j \in 1..Len(db.deliveries) :
    i < j =>
      \A a \in NamedPairs(db.deliveries[i]) :
        \A b \in NamedPairs(db.deliveries[j]) :
          (CleanName(a[1]) = CleanName(b[1]) /\ a[2] # NoId) => b[2] = a[2]

\* C26 amended: once a call has returned identifier p for a name, every later
\* call with the same trimmed name returns p or, when its INSERT and its
\* SELECT both raise, no identifier; it never returns another identifier.
\* Every identifier returned is that of the players row of the name, and no
\* step deletes a players row or changes its name or identifier.
C26_IdentifierNeverChanges ==
  [][ /\ \A p \in db.players : \E q \in db'.players :
           q.player_id = p.player_id /\ q.player_name = p.player_name
      /\ \A p \in db'.players : \A q \in db'.players :
           (p.player_name = q.player_name) <=> (p.player_id = q.player_id)
      /\ \A i \in 1..Len(db'.deliveries) :
           \A a \in NamedPairs(db'.deliveries[i]) :
             a[2] # NoId =>
               \E q \in db'.players :
                 q.player_id = a[2] /\ q.player_name = CleanName(a[1])
      /\ \A l \in db'.match_players :
           \E q \in db'.players : q.player_id = l.player_id ]_vars

\* the same delivery was ingested in two runs of the loader; in the second
\* run both statements of the call for its bowler raised: the batter carries
\* one identifier in both rows, the bowler none in the second row
C26_Witness ==
  /\ run = 2
  /\ faults > 0
  /\ \E i \in 1..Len(db.deliveries) : \E j \in 1..Len(db.deliveries) :
       /\ i < j
       /\ db.deliveries[i].match_id = db.deliveries[j].match_id
       /\ db.deliveries[i].ball_sequence = db.deliveries[j].ball_sequence
       /\ db.deliveries[i].innings_number = db.deliveries[j].innings_number
       /\ db.deliveries[i].batsman_id # NoId
       /\ db.deliveries[j].batsman_id = db.deliveries[i].batsman_id
       /\ db.deliveries[j].bowler_id = NoId
       /\ db.deliveries[i].bowler_id # NoId

\* the deliveries the walk has left behind at position p: those of the
\* innings and overs before p and those before p in its over
RECURSIVE CountOvers(_, _)
CountOvers(overs, n) ==
  IF n = 0 THEN 0
  ELSE Len(overs[n].deliveries) + CountOvers(overs, n - 1)

RECURSIVE CountInnings(_, _)
CountInnings(file, n) ==
  IF n = 0 THEN 0
  ELSE Len(DeliveriesOfOvers(file.innings[n].overs)) +
       CountInnings(file, n - 1)

Visited(file, p) ==
  CountInnings(file, p.inn - 1) +
  (IF p.kind \in {"O", "D"}
   THEN CountOvers(file.innings[p.inn].overs, p.ov - 1) ELSE 0) +
  (IF p.kind = "D" THEN p.ball - 1 ELSE 0)

\* C27: at every point of the innings walk of a file and when it is over,
\* total_deliveries + delivery_errors is the number of deliveries visited so
\* far, and total_deliveries is the number of delivery rows this ingestion
\* has inserted for the match.
C27_CountersPartitionVisited ==
  pc \in {"walk", "aggregate"} =>
    /\ total_deliveries + delivery_errors = Visited(File, pos)
    /\ total_deliveries = Len(NewRows(MatchId))

\* a file ingested a second time, one of its deliveries skipped and one
\* stored, without any raising statement
C27_Witness ==
  /\ pc = "aggregate"
  /\ run = 2
  /\ hist[MatchId] # <<>> /\ hist[MatchId][1].ndeliveries > 0
  /\ faults = 0
  /\ total_deliveries = 1
  /\ delivery_errors = 1
  /\ Visited(File, pos) = 2

\* ------------------------------------------------ the teams of an innings
\* the number of innings blocks of the records examined
MaxInnings == 2

\* the team values examined: three names and a missing value
TeamValues == {"X", "Y", "Z", Null}

\* the innings lists examined: the team of each innings block
InningsTeams == UNION { [1..n -> TeamValues] : n \in 1..MaxInnings }

\* a match record with two listed teams and the teams of its innings blocks;
\* no innings has been visited
InitTeams ==
  /\ LoaderAtRest
  /\ server = NoServer
  /\ \E team1 \in TeamValues, team2 \in TeamValues, ts \in InningsTeams :
       calc = [on |-> TRUE, team1 |-> team1, team2 |-> team2,
               innings_list |-> ts, innings_data |-> <<>>]

\* lines 493-513: one iteration of the loop over the innings blocks, as far
\* as the teams go
AssignTeams ==
  /\ calc.on
  /\ Len(calc.innings_data) < Len(calc.innings_list)
  /\ LET innings_idx == Len(calc.innings_data) + 1
         innings_team == calc.innings_list[innings_idx]
     IN  calc' = [calc EXCEPT !.innings_data = Append(@,
                    [team |-> innings_team,
                     batting_team |-> innings_team,
                     bowling_team |-> BowlingTeam(innings_idx, innings_team,
                                                  calc.team1, calc.team2)])]
  /\ UNCHANGED server
  /\ LoaderFrame

NextTeams == AssignTeams

SpecTeams == InitTeams /\ [][NextTeams]_vars

\* C28: for every innings visited, the batting team is the team of the
\* innings block; when that team is one of the two listed teams and these
\* differ, the bowling team is the other listed team, and the branch of the
\* first innings and the branch of the later innings compute the same team
\* for it.
C28_BowlingTeamIsTheOther ==
  calc.on =>
    \A k \in 1..Len(calc.innings_data) :
      LET t == calc.innings_list[k]
          data == calc.innings_data[k]
      IN  /\ data.batting_team = t
          /\ (calc.team1 # calc.team2 /\ t \in {calc.team1, calc.team2}) =>
               /\ data.bowling_team \in {calc.team1, calc.team2} \ {t}
               /\ BowlingTeamFirst(t, calc.team1, calc.team2) =
                    BowlingTeamLater(t, calc.team1, calc.team2)

\* the second listed team bats first and the first listed team second
C28_Witness ==
  /\ calc.on
  /\ calc.team1 = "X" /\ calc.team2 = "Y"
  /\ calc.innings_list = <<"Y", "X">>
  /\ Len(calc.innings_data) = 2
  /\ calc.innings_data[1].bowling_team = "X"
  /\ calc.innings_data[2].bowling_team = "Y"

\* the rows of match m in a table given as a set
RowsOfMatch(rows, m) == {r \in rows : r.match_id = m}

\* the innings rows of match m when its current ingestion began
InningsBefore(m) ==
  IF hist[m] = <<>> THEN {} ELSE hist[m][Len(hist[m])].innings

\* C29: when the walk comes to an over block without a numeric over number,
\* the file is counted as failed with an escaped exception and the batch
\* goes on; the connection is rolled back to the committed tables, so the
\* committed header and the committed delivery rows of the match remain and
\* the innings rows of the match are those it had before this ingestion.
C29_OverWithoutNumberFailsFile ==
  [][ (pc = "walk" /\ pos.kind = "O" /\
       ~File.innings[pos.inn].overs[pos.ov].has_over) =>
        /\ failed' = failed + 1
        /\ successful' = successful
        /\ Len(outcomes') = Len(outcomes) + 1
        /\ ~outcomes'[Len(outcomes')].ok
        /\ outcomes'[Len(outcomes')].flags.raised
        /\ pc' \in {"read", "summary"}
        /\ committed' = committed
        /\ db' = committed
        /\ RowsOfMatch(db'.innings, MatchId) = InningsBefore(MatchId)
        /\ RowsOfMatch(db'.matches, MatchId) # {}
        /\ RowsOfMatch(db'.matches, MatchId) =
             RowsOfMatch(db.matches, MatchId)
        /\ db'.deliveries = committed.deliveries
    ]_vars

\* a file with an over block without a number after a stored delivery, read
\* over an autocommit connection: the file is failed, the match has its
\* header and the delivery row, committed when it was inserted, and no
\* innings row
C29_Witness ==
  /\ run = 1
  /\ autocommit
  /\ \E k \in 1..Len(outcomes) :
       LET m == outcomes[k].match_id IN
       /\ outcomes[k].content = "badover"
       /\ ~outcomes[k].ok
       /\ outcomes[k].flags.raised
       /\ outcomes[k].flags.nfaults = 0
       /\ outcomes[k].deliveries = 1
       /\ Len(hist[m]) = 1
       /\ hist[m][1].innings = {}
       /\ hist[m][1].ndeliveries = 1
       /\ hist[m][1].matches # {}

\* C30: connect makes at most DB_MAX_RETRIES attempts in one call: an
\* attempt that succeeds sets is_connected and ends the loop, a failed one
\* before the last goes to the next attempt, the last failed one raises and
\* the query is not run; is_connected becomes true in a successful attempt
\* only, and execute_query entered while not connected goes through connect,
\* so a query is run only over a connection.
C30_ConnectRetries ==
  [][ /\ server.on /\ server'.on
      /\ server'.connects <= DB_MAX_RETRIES
      /\ server.pc = "connect" =>
           /\ ~server.is_connected
           /\ server.attempt < DB_MAX_RETRIES
           /\ server'.connects = server.connects + 1
           /\ \/ /\ server'.is_connected
                 /\ server'.pc = "cursor"
              \/ /\ ~server'.is_connected
                 /\ server.attempt < DB_MAX_RETRIES - 1
                 /\ server'.attempt = server.attempt + 1
                 /\ server'.pc = "connect"
              \/ /\ ~server'.is_connected
                 /\ server.attempt = DB_MAX_RETRIES - 1
                 /\ server'.pc = "idle"
                 /\ server'.result = "execution error"
                 /\ ~server'.executed
      /\ (~server.is_connected /\ server'.is_connected) =>
           (server.pc = "connect" /\ server'.pc = "cursor")
      /\ (server.pc = "execute_query" /\ ~server.is_connected) =>
           /\ server'.pc = "connect"
           /\ server'.attempt = 0
           /\ server'.connects = 0
           /\ ~server'.executed
      /\ (~server.executed /\ server'.executed) => server.is_connected
    ]_vars

\* two attempts failed and the third, the last one allowed, succeeded
C30_Witness ==
  /\ server.on
  /\ server.pc = "cursor"
  /\ server.is_connected
  /\ server.attempt = DB_MAX_RETRIES - 1
  /\ server.connects = DB_MAX_RETRIES

====
